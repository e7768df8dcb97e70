--------------------------- MODULE SharedMapLists ---------------------------
(***************************************************************************)
(* What the memory of SharedMap represents, for any nodes, buckets, keys    *)
(* and values: a list of nodes for each bucket, the free nodes and the list *)
(* of all.  The lemmas say what Walk, NodeOf and the stacks are when the    *)
(* links lead through given lists, and what becomes of the lists when a     *)
(* node is put before one, taken out of one, or filled anew.  The proofs    *)
(* about the processes, SharedMapProofs, rest on them.                      *)
(***************************************************************************)
EXTENDS SharedMap, SequenceTheorems, FiniteSetTheorems, WellFoundedInduction, TLAPS

-----------------------------------------------------------------------------
(* What the memory represents: a list of nodes for each bucket (L), the free *)
(* nodes (F) and the list of all (A).                                        *)

Nth(s, i) == IF i \in 1..Len(s) THEN s[i] ELSE INVALID

Distinct(s) == \A i, j \in 1..Len(s) : s[i] = s[j] => i = j

\* From first on, link leads through s and to its end; from last on, back to its beginning.
Leads(first, link, s) == first = Nth(s, 1) /\ \A i \in 1..Len(s) : link[s[i]] = Nth(s, i + 1)
Backs(last, link, s) == last = Nth(s, Len(s)) /\ \A i \in 1..Len(s) : link[s[i]] = Nth(s, i - 1)

Linked(L) == {n \in Node : \E b \in Bucket : n \in Range(L[b])}

Datum == {None} \cup {v[2] : v \in Value}

Segment ==
  [total : Int, used : Int, usedBuckets : Int, free : Handle, addHead : Handle, addTail : Handle,
   bucket : [Bucket -> Handle],
   key : [Node -> Key], len : [Node -> Nat], data : [Node -> Datum],
   next : [Node -> Handle], prev : [Node -> Handle],
   addNext : [Node -> Handle], addPrev : [Node -> Handle],
   freeChunks : Int]

\* Nodes have one place among the buckets and the free list.
Placed(L, F, A) ==
  /\ L \in [Bucket -> Seq(Node)] /\ F \in Seq(Node) /\ A \in Seq(Node)
  /\ \A b \in Bucket : Distinct(L[b])
  /\ Distinct(F) /\ Range(F) \cap Linked(L) = {}
  /\ Distinct(A) /\ Range(A) \subseteq Linked(L)

Buckets(mem, L) ==
  \A b \in Bucket :
    /\ Leads(mem.bucket[b], mem.next, L[b])
    /\ \A n \in Range(L[b]) : GetBucketId(mem.key[n]) = b

InAddList(mem, A) ==
  /\ Leads(mem.addHead, mem.addNext, A) /\ Backs(mem.addTail, mem.addPrev, A)
  /\ \A n \in Node \ Range(A) : mem.addNext[n] = INVALID /\ mem.addPrev[n] = INVALID

Shape(mem, L, F, A) ==
  /\ mem \in Segment /\ mem.total = NodeTotal
  /\ Placed(L, F, A) /\ Buckets(mem, L) /\ InAddList(mem, A)
  /\ Leads(mem.free, mem.next, F)

\* All nodes but x know who comes before them.
Knows(prev, s, x) == \A i \in 1..Len(s) : s[i] # x => prev[s[i]] = Nth(s, i - 1)
PrevRight(mem, L, x) == \A b \in Bucket : Knows(mem.prev, L[b], x)

\* The list of the bucket that the key of node n belongs to.
ListOf(mem, L, n) == L[GetBucketId(mem.key[n])]

\* The chunks of all nodes, when node n has f[n].
Chunks(f) == UNION {{n} \X (1..f[n]) : n \in Node}

-----------------------------------------------------------------------------
(* Induction. *)

\* A set of numbers with 0 and with the successor of each of its numbers is all of them.
LEMMA AllNumbers ==
  ASSUME NEW G, 0 \in G, \A n \in Nat : n \in G => n + 1 \in G
  PROVE  \A n \in Nat : n \in G
<1> SUFFICES ASSUME Nat \ G # {} PROVE FALSE
  OBVIOUS
<1>1. PICK n \in Nat \ G : \A j \in Nat \ G : ~ (<<j, n>> \in OpToRel(<, Nat))
  BY NatLessThanWellFounded, WFMin
<1>2. n \in Nat /\ n \notin G /\ \A j \in Nat \ G : ~ (j < n)
  <2> SUFFICES ASSUME NEW j \in Nat \ G PROVE ~ (j < n)
    OBVIOUS
  <2>1. j \in Nat /\ n \in Nat
    OBVIOUS
  <2> QED
    BY <1>1, <2>1 DEF OpToRel
<1>3. n # 0
  BY <1>2
<1>4. n - 1 \in Nat /\ (n - 1) + 1 = n /\ n - 1 < n
  BY <1>2, <1>3
<1>5. n - 1 \in G
  BY <1>2, <1>4
<1> QED
  BY <1>2, <1>4, <1>5

\* So for sequences, with the empty one and appending.
LEMMA AllSequences ==
  ASSUME NEW S, NEW G, <<>> \in G, \A s \in Seq(S), e \in S : s \in G => Append(s, e) \in G
  PROVE  \A s \in Seq(S) : s \in G
<1> DEFINE N == {n \in Nat : \A s \in Seq(S) : Len(s) = n => s \in G}
<1>1. 0 \in N
  <2> SUFFICES ASSUME NEW s \in Seq(S), Len(s) = 0 PROVE s \in G
    OBVIOUS
  <2>1. s = <<>>
    BY EmptySeq
  <2> QED
    BY <2>1
<1>2. ASSUME NEW n \in Nat, n \in N PROVE n + 1 \in N
  <2> SUFFICES ASSUME NEW s \in Seq(S), Len(s) = n + 1 PROVE s \in G
    OBVIOUS
  <2>1. s # <<>>
    BY EmptySeq
  <2>2. PICK t \in Seq(S), e \in S : s = Append(t, e)
    BY <2>1, SequenceEmptyOrAppend
  <2>3. Len(s) = Len(t) + 1 /\ Len(t) \in Nat
    BY <2>2, AppendProperties, LenProperties
  <2>4. Len(t) = n
    BY <2>3
  <2> QED
    BY <1>2, <2>2, <2>4
<1> HIDE DEF N
<1>3. \A n \in Nat : n \in N
  BY <1>1, <1>2, AllNumbers
<1>4. ASSUME NEW s \in Seq(S) PROVE s \in G
  <2>1. Len(s) \in N
    BY <1>3, LenProperties
  <2> QED
    BY <2>1 DEF N
<1> QED
  BY <1>4

-----------------------------------------------------------------------------
(* Sequences. *)

\* A sequence without what is at its place k.
LEMMA CutOut ==
  ASSUME NEW S, NEW s \in Seq(S), NEW k \in 1..Len(s)
  PROVE  /\ RemoveAt(s, k) \in Seq(S) /\ Len(RemoveAt(s, k)) = Len(s) - 1
         /\ \A i \in 1..Len(s)-1 : RemoveAt(s, k)[i] = IF i < k THEN s[i] ELSE s[i + 1]
<1> DEFINE a == SubSeq(s, 1, k - 1)
           b == SubSeq(s, k + 1, Len(s))
           r == RemoveAt(s, k)
<1>0. k \in Int /\ Len(s) \in Nat /\ 1 <= k /\ k <= Len(s) /\ \A i \in 1..Len(s) : s[i] \in S
  OBVIOUS
<1>1. a \in Seq(S) /\ Len(a) = k - 1 /\ \A i \in 1..k-1 : a[i] = s[i]
  <2>1. \A i \in 1..k-1 : s[i] \in S
    BY <1>0
  <2>2. /\ a \in Seq(S) /\ Len(a) = IF 1 <= k - 1 THEN k - 1 - 1 + 1 ELSE 0
        /\ \A i \in 1..(k-1)-1+1 : a[i] = s[1+i-1]
    BY <1>0, <2>1, SubSeqProperties, k - 1 \in Int, 1 \in Int
  <2> HIDE DEF a
  <2> QED
    BY <1>0, <2>2
<1>2. b \in Seq(S) /\ Len(b) = Len(s) - k /\ \A i \in 1..Len(s)-k : b[i] = s[k + i]
  <2>1. \A i \in k+1..Len(s) : s[i] \in S
    BY <1>0
  <2>2. /\ b \in Seq(S) /\ Len(b) = IF k + 1 <= Len(s) THEN Len(s) - (k + 1) + 1 ELSE 0
        /\ \A i \in 1..Len(s)-(k+1)+1 : b[i] = s[(k+1)+i-1]
    BY <1>0, <2>1, SubSeqProperties, k + 1 \in Int, Len(s) \in Int
  <2> HIDE DEF b
  <2> QED
    BY <1>0, <2>2
<1>3. r = a \o b
  BY DEF RemoveAt
<1> HIDE DEF a, b, r
<1>4. /\ r \in Seq(S) /\ Len(r) = Len(a) + Len(b)
      /\ \A i \in 1..Len(a)+Len(b) : r[i] = IF i <= Len(a) THEN a[i] ELSE b[i - Len(a)]
  BY <1>1, <1>2, <1>3, ConcatProperties
<1>5. Len(a) + Len(b) = Len(s) - 1 /\ Len(r) = Len(s) - 1
  <2>1. Len(a) + Len(b) = (k - 1) + (Len(s) - k)
    BY <1>1, <1>2
  <2> QED
    BY <1>0, <1>4, <2>1
<1>6. ASSUME NEW i \in 1..Len(s)-1 PROVE r[i] = IF i < k THEN s[i] ELSE s[i + 1]
  <2>0. i \in Int /\ 1 <= i /\ i <= Len(s) - 1
    BY <1>0
  <2>1. CASE i < k
    <3>1. i <= Len(a) /\ i \in 1..k-1
      BY <1>0, <1>1, <2>0, <2>1
    <3>2. r[i] = a[i] /\ a[i] = s[i]
      BY <1>1, <1>4, <1>5, <3>1
    <3> QED
      BY <2>1, <3>2
  <2>2. CASE ~ (i < k)
    <3>1. i - (k - 1) \in 1..Len(s)-k /\ k + (i - (k - 1)) = i + 1 /\ ~ (i <= Len(a))
      BY <1>0, <1>1, <2>0, <2>2
    <3>2. r[i] = b[i - (k - 1)]
      BY <1>1, <1>4, <1>5, <3>1
    <3>3. b[i - (k - 1)] = s[k + (i - (k - 1))]
      BY <1>2, <3>1
    <3> QED
      BY <2>2, <3>1, <3>2, <3>3
  <2> QED
    BY <2>1, <2>2
<1> QED
  BY <1>4, <1>5, <1>6 DEF r

\* A sequence with n in front.
LEMMA Pushed ==
  ASSUME NEW s \in Seq(Node), NEW n \in Node
  PROVE  LET t == <<n>> \o s
         IN /\ t \in Seq(Node) /\ Len(t) = Len(s) + 1 /\ t # <<>>
            /\ t[1] = n /\ \A i \in 1..Len(s) : t[i+1] = s[i]
            /\ Range(t) = Range(s) \cup {n}
            /\ n \notin Range(s) /\ Distinct(s) => Distinct(t)
<1> DEFINE t == <<n>> \o s
<1>1. <<n>> \in Seq(Node) /\ Len(<<n>>) = 1 /\ <<n>>[1] = n /\ Len(s) \in Nat
  OBVIOUS
<1>2. /\ t \in Seq(Node) /\ Len(t) = 1 + Len(s)
      /\ \A i \in 1..1+Len(s) : t[i] = IF i <= 1 THEN <<n>>[i] ELSE s[i - 1]
  BY <1>1, ConcatProperties
<1> HIDE DEF t
<1>3. t[1] = n /\ \A i \in 1..Len(s) : t[i+1] = s[i]
  <2>1. t[1] = n
    BY <1>1, <1>2
  <2>2. ASSUME NEW i \in 1..Len(s) PROVE t[i+1] = s[i]
    BY <1>1, <1>2
  <2> QED
    BY <2>1, <2>2
<1>4. t # <<>>
  BY <1>1, <1>2, EmptySeq
<1>5. Range(t) = Range(s) \cup {n}
  <2>1. Range(t) = {t[i] : i \in 1..Len(t)} /\ Range(s) = {s[i] : i \in 1..Len(s)}
    BY <1>2, RangeEquality
  <2>2. ASSUME NEW i \in 1..Len(t) PROVE t[i] = n \/ (i - 1 \in 1..Len(s) /\ t[i] = s[i-1])
    BY <1>1, <1>2
  <2>3. 1 \in 1..Len(t) /\ \A i \in 1..Len(s) : i + 1 \in 1..Len(t)
    BY <1>1, <1>2
  <2>4. ASSUME NEW x \in Range(t) PROVE x \in Range(s) \cup {n}
    BY <2>1, <2>2, <2>4
  <2>5. n \in Range(t)
    BY <1>3, <2>1, <2>3
  <2>6. ASSUME NEW x \in Range(s) PROVE x \in Range(t)
    <3>1. PICK i \in 1..Len(s) : x = s[i]
      BY <2>1, <2>6
    <3>2. t[i+1] = x /\ i + 1 \in 1..Len(t)
      BY <1>3, <2>3, <3>1
    <3> QED
      BY <2>1, <3>2
  <2> QED
    BY <2>4, <2>5, <2>6
<1>6. ASSUME n \notin Range(s), Distinct(s) PROVE Distinct(t)
  <2> SUFFICES ASSUME NEW i \in 1..Len(t), NEW j \in 1..Len(t), t[i] = t[j] PROVE i = j
    BY DEF Distinct
  <2>1. Range(s) = {s[k] : k \in 1..Len(s)}
    BY RangeEquality
  <2>2. ASSUME NEW k \in 1..Len(t) 
          PROVE  (k = 1 /\ t[k] = n) \/ (k - 1 \in 1..Len(s) /\ t[k] = s[k-1] /\ t[k] # n)
    BY <1>1, <1>2, <1>6, <2>1
  <2>3. CASE t[i] = n
    BY <2>2, <2>3
  <2>4. CASE t[i] # n
    <3>1. i - 1 \in 1..Len(s) /\ j - 1 \in 1..Len(s) /\ s[i-1] = s[j-1]
      BY <2>2, <2>4
    <3>2. i - 1 = j - 1
      BY <1>6, <3>1 DEF Distinct
    <3> QED
      BY <1>1, <1>2, <3>2
  <2> QED
    BY <2>3, <2>4
<1> QED
  BY <1>1, <1>2, <1>3, <1>4, <1>5, <1>6 DEF t

\* A sequence of different nodes without the i-th.
LEMMA Cut ==
  ASSUME NEW s \in Seq(Node), Distinct(s), NEW i \in 1..Len(s)
  PROVE  LET r == RemoveAt(s, i)
         IN /\ r \in Seq(Node) /\ Len(r) = Len(s) - 1 /\ Distinct(r)
            /\ \A j \in Nat : Nth(r, j) = IF j < i THEN Nth(s, j) ELSE Nth(s, j + 1)
            /\ Range(r) = Range(s) \ {s[i]}
<1> DEFINE r == RemoveAt(s, i)
<1>1. /\ r \in Seq(Node) /\ Len(r) = Len(s) - 1
      /\ \A j \in 1..Len(s)-1 : r[j] = IF j < i THEN s[j] ELSE s[j + 1]
  BY CutOut
<1> HIDE DEF r
<1>2. Len(s) \in Nat /\ i \in Nat /\ 1 <= i /\ i <= Len(s)
  OBVIOUS
<1>3. Distinct(r)
  <2> SUFFICES ASSUME NEW j \in 1..Len(r), NEW k \in 1..Len(r), r[j] = r[k] PROVE j = k
    BY DEF Distinct
  <2>1. \A x \in 1..Len(r) : \E y \in 1..Len(s) : r[x] = s[y] /\ y = IF x < i THEN x ELSE x + 1
    BY <1>1, <1>2
  <2>2. PICK y \in 1..Len(s) : r[j] = s[y] /\ y = IF j < i THEN j ELSE j + 1
    BY <2>1
  <2>3. PICK z \in 1..Len(s) : r[k] = s[z] /\ z = IF k < i THEN k ELSE k + 1
    BY <2>1
  <2>4. y = z
    BY <2>2, <2>3 DEF Distinct
  <2> QED
    BY <1>1, <1>2, <2>2, <2>3, <2>4
<1>4. ASSUME NEW j \in Nat PROVE Nth(r, j) = IF j < i THEN Nth(s, j) ELSE Nth(s, j + 1)
  <2>1. CASE j \in 1..Len(s)-1
    BY <1>1, <1>2, <2>1 DEF Nth
  <2>2. CASE j \notin 1..Len(s)-1
    BY <1>1, <1>2, <2>2 DEF Nth
  <2> QED
    BY <2>1, <2>2
<1>5. Range(r) = Range(s) \ {s[i]}
  <2>1. Range(r) = {r[j] : j \in 1..Len(r)} /\ Range(s) = {s[j] : j \in 1..Len(s)}
    BY <1>1, RangeEquality
  <2>2. ASSUME NEW x \in Range(r) PROVE x \in Range(s) \ {s[i]}
    <3>1. PICK j \in 1..Len(r) : x = r[j]
      BY <2>1, <2>2
    <3>2. PICK y \in 1..Len(s) : x = s[y] /\ y # i
      BY <1>1, <1>2, <3>1
    <3>3. s[y] # s[i]
      BY <3>2 DEF Distinct
    <3> QED
      BY <2>1, <3>2, <3>3
  <2>3. ASSUME NEW x \in Range(s) \ {s[i]} PROVE x \in Range(r)
    <3>1. PICK y \in 1..Len(s) : x = s[y]
      BY <2>1
    <3>2. y # i
      BY <3>1
    <3>3. \E j \in 1..Len(r) : x = r[j]
      <4>1. CASE y < i
        <5>1. y \in 1..Len(r) /\ r[y] = s[y]
          BY <1>1, <1>2, <4>1
        <5> QED
          BY <3>1, <5>1
      <4>2. CASE y > i
        <5>1. y - 1 \in 1..Len(r) /\ r[y-1] = s[y]
          BY <1>1, <1>2, <4>2
        <5> QED
          BY <3>1, <5>1
      <4> QED
        BY <1>2, <3>2, <4>1, <4>2
    <3> QED
      BY <2>1, <3>3
  <2> QED
    BY <2>2, <2>3
<1> QED
  BY <1>1, <1>3, <1>4, <1>5 DEF r

\* What is in a sequence is somewhere in it.
LEMMA Somewhere ==
  ASSUME NEW s \in Seq(Node)
  PROVE  /\ Len(s) \in Nat
         /\ \A i \in 1..Len(s) : s[i] \in Node /\ s[i] \in Range(s)
         /\ \A n \in Range(s) : n \in Node /\ \E i \in 1..Len(s) : s[i] = n
         /\ s = <<>> <=> Len(s) = 0
         /\ \A i \in Int : Nth(s, i) \in Handle
<1>1. Len(s) \in Nat /\ \A i \in 1..Len(s) : s[i] \in Node
  OBVIOUS
<1>2. Range(s) = {s[i] : i \in 1..Len(s)}
  BY RangeEquality
<1>3. s = <<>> <=> Len(s) = 0
  BY EmptySeq
<1>4. \A i \in Int : Nth(s, i) \in Handle
  BY <1>1 DEF Nth, Handle
<1> QED
  BY <1>1, <1>2, <1>3, <1>4

\* INVALID is the handle of no node.
LEMMA NoNode == INVALID \notin Node /\ INVALID \in Handle /\ Node \subseteq Handle
BY SizeAssumption DEF INVALID, Node, Handle

\* A node is put in front of a list.
LEMMA LeadsPushed ==
  ASSUME NEW s \in Seq(Node), NEW n \in Node \ Range(s), NEW first, NEW link, NEW link2,
         Leads(first, link, s), link2[n] = first, \A x \in Range(s) : link2[x] = link[x]
  PROVE  Leads(n, link2, <<n>> \o s)
<1> DEFINE t == <<n>> \o s
<1>1. /\ t \in Seq(Node) /\ Len(t) = Len(s) + 1 /\ t[1] = n
      /\ \A i \in 1..Len(s) : t[i+1] = s[i]
  BY Pushed
<1> HIDE DEF t
<1>2. Len(s) \in Nat /\ \A i \in 1..Len(s) : s[i] \in Range(s)
  BY Somewhere
<1>3. Nth(t, 1) = n
  BY <1>1, <1>2 DEF Nth
<1>4. \A i \in Nat \ {0} : Nth(t, i + 1) = Nth(s, i)
  <2> SUFFICES ASSUME NEW i \in Nat \ {0} PROVE Nth(t, i + 1) = Nth(s, i)
    OBVIOUS
  <2>1. i + 1 \in 1..Len(t) <=> i \in 1..Len(s)
    BY <1>1, <1>2
  <2> QED
    BY <1>1, <2>1 DEF Nth
<1>5. ASSUME NEW i \in 1..Len(t) PROVE link2[t[i]] = Nth(t, i + 1)
  <2>1. CASE i = 1
    BY <1>1, <1>4, <2>1 DEF Leads
  <2>2. CASE i # 1
    <3>1. i - 1 \in 1..Len(s) /\ (i - 1) + 1 = i /\ i \in Nat \ {0}
      BY <1>1, <1>2, <2>2
    <3>2. t[i] = s[i-1]
      BY <1>1, <3>1
    <3>3. link2[s[i-1]] = Nth(s, (i - 1) + 1)
      BY <1>2, <3>1 DEF Leads
    <3> QED
      BY <1>4, <3>1, <3>2, <3>3
  <2> QED
    BY <2>1, <2>2
<1>6. Leads(n, link2, t)
  BY <1>3, <1>5 DEF Leads
<1> QED
  BY <1>6 DEF t

\* A list is not changed by what is done to other nodes.
LEMMA LeadsKept ==
  ASSUME NEW s \in Seq(Node), NEW first, NEW link, NEW link2,
         Leads(first, link, s), \A x \in Range(s) : link2[x] = link[x]
  PROVE  Leads(first, link2, s)
BY Somewhere DEF Leads

\* Links that lead back through a list still do when its nodes keep theirs.
LEMMA BacksKept ==
  ASSUME NEW s \in Seq(Node), NEW last, NEW link, NEW link2,
         Backs(last, link, s), \A x \in Range(s) : link2[x] = link[x]
  PROVE  Backs(last, link2, s)
BY Somewhere DEF Backs

\* By link2 the node d places behind the i-th of s leads past it, and the others lead to
\* where they do by link.
Passed(link, link2, s, i, d) ==
  /\ i + d \in 1..Len(s) => link2[s[i+d]] = Nth(s, i - d)
  /\ \A j \in 1..Len(s) : j # i /\ j # i + d => link2[s[j]] = link[s[j]]

\* The i-th node is taken out.
LEMMA LeadsCut ==
  ASSUME NEW s \in Seq(Node), Distinct(s), NEW i \in 1..Len(s), NEW first, NEW link, NEW link2,
         Leads(first, link, s),
         Passed(link, link2, s, i, -1)
  PROVE  Leads(IF i = 1 THEN Nth(s, 2) ELSE first, link2, RemoveAt(s, i))
<1> DEFINE r == RemoveAt(s, i)
<1>1. /\ r \in Seq(Node) /\ Len(r) = Len(s) - 1
      /\ \A j \in 1..Len(s)-1 : r[j] = IF j < i THEN s[j] ELSE s[j + 1]
      /\ \A j \in Nat : Nth(r, j) = IF j < i THEN Nth(s, j) ELSE Nth(s, j + 1)
  BY Cut, CutOut
<1>0. Len(r) = Len(s) - 1
  BY <1>1
<1> HIDE DEF r
<1>2. Len(s) \in Nat /\ i \in Nat /\ 1 <= i /\ i <= Len(s)
  OBVIOUS
<1>6. /\ i - 1 \in 1..Len(s) => link2[s[i-1]] = Nth(s, i + 1)
      /\ \A j \in 1..Len(s) : j # i /\ j # i - 1 => link2[s[j]] = link[s[j]]
  <2>1. i + (-1) = i - 1 /\ i - (-1) = i + 1
    BY <1>2
  <2> QED
    BY <2>1 DEF Passed
<1>3. Nth(r, 1) = IF i = 1 THEN Nth(s, 2) ELSE first
  BY <1>1, <1>2, SMTT(20) DEF Leads
<1>4. ASSUME NEW j \in 1..Len(r) PROVE link2[r[j]] = Nth(r, j + 1)
  <2>0. j \in Nat /\ 1 <= j /\ j <= Len(s) - 1
    BY <1>0, <1>2
  <2>1. j \in Nat /\ j \in 1..Len(s)-1 /\ j \in 1..Len(s) /\ j + 1 \in 1..Len(s) /\ j + 1 \in Nat
        /\ (j + 1) + 1 = j + 2
    BY <1>2, <2>0
  <2>2. Nth(r, j + 1) = IF j + 1 < i THEN Nth(s, j + 1) ELSE Nth(s, j + 2)
    BY <1>1, <2>1
  <2>3. CASE j + 1 < i
    <3>1. r[j] = s[j] /\ j # i /\ j # i - 1
      BY <1>1, <1>2, <2>1, <2>3
    <3>2. link2[s[j]] = link[s[j]]
      BY <1>6, <2>1, <3>1
    <3>3. link[s[j]] = Nth(s, j + 1)
      BY <2>1 DEF Leads
    <3> QED
      BY <2>2, <2>3, <3>1, <3>2, <3>3
  <2>4. CASE j + 1 = i
    <3>1. r[j] = s[j] /\ j = i - 1
      BY <1>1, <1>2, <2>1, <2>4
    <3>2. link2[s[j]] = Nth(s, i + 1)
      BY <1>2, <1>6, <2>1, <3>1
    <3> QED
      BY <1>2, <2>1, <2>2, <2>4, <3>1, <3>2
  <2>5. CASE j + 1 > i
    <3>1. r[j] = s[j+1] /\ j + 1 # i /\ j + 1 # i - 1
      BY <1>1, <1>2, <2>1, <2>5
    <3>2. link2[s[j+1]] = link[s[j+1]]
      BY <1>6, <2>1, <3>1
    <3>3. link[s[j+1]] = Nth(s, j + 2)
      BY <2>1 DEF Leads
    <3> QED
      BY <1>2, <2>1, <2>2, <2>5, <3>1, <3>2, <3>3
  <2> QED
    BY <1>2, <2>1, <2>3, <2>4, <2>5
<1>5. Leads(IF i = 1 THEN Nth(s, 2) ELSE first, link2, r)
  BY <1>3, <1>4 DEF Leads
<1> QED
  BY <1>5 DEF r

\* The same for the links back, the end of which moves when it is the last that is taken out.
LEMMA BacksCut ==
  ASSUME NEW s \in Seq(Node), Distinct(s), NEW i \in 1..Len(s), NEW last, NEW link, NEW link2,
         Backs(last, link, s),
         Passed(link, link2, s, i, 1)
  PROVE  Backs(IF i = Len(s) THEN Nth(s, i - 1) ELSE last, link2, RemoveAt(s, i))
<1> DEFINE r == RemoveAt(s, i)
<1>1. /\ r \in Seq(Node) /\ Len(r) = Len(s) - 1
      /\ \A j \in 1..Len(s)-1 : r[j] = IF j < i THEN s[j] ELSE s[j + 1]
      /\ \A j \in Nat : Nth(r, j) = IF j < i THEN Nth(s, j) ELSE Nth(s, j + 1)
  BY Cut, CutOut
<1>0. Len(r) = Len(s) - 1
  BY <1>1
<1> HIDE DEF r
<1>2. Len(s) \in Nat /\ i \in Nat /\ 1 <= i /\ i <= Len(s)
  OBVIOUS
<1>6. /\ i + 1 \in 1..Len(s) => link2[s[i+1]] = Nth(s, i - 1)
      /\ \A j \in 1..Len(s) : j # i /\ j # i + 1 => link2[s[j]] = link[s[j]]
  BY DEF Passed
<1>3. Nth(r, Len(r)) = IF i = Len(s) THEN Nth(s, i - 1) ELSE last
  <2>1. Len(r) \in Nat /\ (Len(s) - 1) + 1 = Len(s)
    BY <1>1, <1>2
  <2>2. Nth(r, Len(r)) = IF Len(s) - 1 < i THEN Nth(s, Len(s) - 1) ELSE Nth(s, Len(s))
    BY <1>1, <2>1
  <2> QED
    BY <1>2, <2>2 DEF Backs
<1>4. ASSUME NEW j \in 1..Len(r) PROVE link2[r[j]] = Nth(r, j - 1)
  <2>0. j \in Nat /\ 1 <= j /\ j <= Len(s) - 1
    BY <1>0, <1>2
  <2>1. j \in Nat /\ j - 1 \in Nat /\ j \in 1..Len(s)-1 /\ j \in 1..Len(s) /\ j + 1 \in 1..Len(s)
        /\ (j - 1) + 1 = j /\ (j + 1) - 1 = j
    BY <1>2, <2>0
  <2>2. Nth(r, j - 1) = IF j - 1 < i THEN Nth(s, j - 1) ELSE Nth(s, j)
    BY <1>1, <2>1
  <2>3. CASE j < i
    <3>1. r[j] = s[j] /\ j # i /\ j # i + 1
      BY <1>1, <1>2, <2>1, <2>3
    <3>2. link2[s[j]] = link[s[j]]
      BY <1>6, <2>1, <3>1
    <3>3. link[s[j]] = Nth(s, j - 1)
      BY <2>1 DEF Backs
    <3> QED
      BY <1>2, <2>1, <2>2, <2>3, <3>1, <3>2, <3>3
  <2>4. CASE j = i
    <3>0. r[j] = s[j+1] /\ j + 1 # i /\ j + 1 = i + 1
      BY <1>1, <1>2, <2>1, <2>4
    <3>1. r[j] = s[j+1] /\ link2[s[j+1]] = Nth(s, i - 1)
      BY <1>6, <2>1, <2>4, <3>0
    <3> QED
      BY <1>2, <2>1, <2>2, <2>4, <3>1
  <2>5. CASE j > i
    <3>1. r[j] = s[j+1] /\ j + 1 # i /\ j + 1 # i + 1
      BY <1>1, <1>2, <2>1, <2>5
    <3>2. link2[s[j+1]] = link[s[j+1]]
      BY <1>6, <2>1, <3>1
    <3>3. link[s[j+1]] = Nth(s, j)
      BY <2>1 DEF Backs
    <3> QED
      BY <1>2, <2>1, <2>2, <2>5, <3>1, <3>2, <3>3
  <2> QED
    BY <1>2, <2>1, <2>3, <2>4, <2>5
<1>5. Backs(IF i = Len(s) THEN Nth(s, i - 1) ELSE last, link2, r)
  BY <1>3, <1>4 DEF Backs
<1> QED
  BY <1>5 DEF r

\* A node put before a list, to which its first node now leads back.
LEMMA BacksPushed ==
  ASSUME NEW s \in Seq(Node), NEW n \in Node \ Range(s), NEW last, NEW link, NEW link2, NEW last2,
         Backs(last, link, s), link2[n] = INVALID,
         \A j \in 1..Len(s) : link2[s[j]] = IF j = 1 THEN n ELSE link[s[j]],
         last2 = IF s = <<>> THEN n ELSE last
  PROVE  Backs(last2, link2, <<n>> \o s)
<1> DEFINE t == <<n>> \o s
<1>1. /\ t \in Seq(Node) /\ Len(t) = Len(s) + 1 /\ t[1] = n
      /\ \A i \in 1..Len(s) : t[i+1] = s[i]
  BY Pushed
<1> HIDE DEF t
<1>2. Len(s) \in Nat /\ (s = <<>> <=> Len(s) = 0)
  BY Somewhere
<1>3. \A i \in Nat \ {0} : Nth(t, i + 1) = Nth(s, i)
  <2> SUFFICES ASSUME NEW i \in Nat \ {0} PROVE Nth(t, i + 1) = Nth(s, i)
    OBVIOUS
  <2>1. i + 1 \in 1..Len(t) <=> i \in 1..Len(s)
    BY <1>1, <1>2
  <2> QED
    BY <1>1, <2>1 DEF Nth
<1>4. Nth(t, 0) = INVALID /\ Nth(t, 1) = n
  BY <1>1, <1>2 DEF Nth
<1>5. Nth(t, Len(t)) = last2
  <2>1. CASE s = <<>>
    BY <1>1, <1>2, <1>4, <2>1
  <2>2. CASE s # <<>>
    BY <1>1, <1>2, <1>3, <2>2 DEF Backs
  <2> QED
    BY <2>1, <2>2
<1>6. ASSUME NEW i \in 1..Len(t) PROVE link2[t[i]] = Nth(t, i - 1)
  <2>1. CASE i = 1
    BY <1>1, <1>4, <2>1
  <2>2. CASE i = 2
    <3>1. t[2] = s[1] /\ 1 \in 1..Len(s)
      BY <1>1, <1>2, <2>2
    <3> QED
      BY <1>4, <2>2, <3>1
  <2>3. CASE i > 2
    <3>1. i - 1 \in 1..Len(s) /\ (i - 1) + 1 = i /\ i - 2 \in Nat \ {0} /\ (i - 2) + 1 = i - 1 /\ i - 1 # 1
          /\ (i - 1) - 1 = i - 2
      BY <1>1, <1>2, <2>3
    <3>2. t[i] = s[i-1]
      BY <1>1, <3>1
    <3>3. link2[s[i-1]] = Nth(s, i - 2)
      BY <3>1 DEF Backs
    <3> QED
      BY <1>3, <3>1, <3>2, <3>3
  <2> QED
    BY <1>1, <1>2, <2>1, <2>2, <2>3
<1>7. Backs(last2, link2, t)
  BY <1>5, <1>6 DEF Backs
<1> QED
  BY <1>7 DEF t

-----------------------------------------------------------------------------
(* Walks. *)

\* Where one gets from a handle by link.
On(link) == [h \in Handle |-> IF h = INVALID THEN INVALID ELSE link[h]]

\* v is what is met from first on, step by step.
Met(first, link, v) ==
  v \in [0..NodeTotal -> Handle] /\ v[0] = first /\ \A i \in 1..NodeTotal : v[i] = On(link)[v[i-1]]

\* A function that goes from handle to handle as the links do is the one of Along.
LEMMA AlongIs ==
  ASSUME NEW first, NEW link, NEW v, Met(first, link, v)
  PROVE  \A i \in 0..NodeTotal : Along(first, link)[i] = v[i]
<1> DEFINE Steps(w) == [i \in 0..NodeTotal |-> IF i = 0 THEN first ELSE On(link)[w[i-1]]]
           w == CHOOSE w : w = Steps(w)
<1>0. /\ NodeTotal \in Nat
      /\ v \in [0..NodeTotal -> Handle] /\ v[0] = first
      /\ \A i \in 1..NodeTotal : v[i] = On(link)[v[i-1]]
  BY SizeAssumption DEF Met
<1>1. v = Steps(v)
  <2>1. \A i \in 0..NodeTotal : v[i] = IF i = 0 THEN first ELSE On(link)[v[i-1]]
    BY <1>0
  <2>2. v = [i \in 0..NodeTotal |-> v[i]]
    BY <1>0
  <2>3. [i \in 0..NodeTotal |-> v[i]] = Steps(v)
    BY <2>1
  <2> QED
    BY <2>2, <2>3
<1>2. w = Steps(w)
  BY <1>1
<1>3. Along(first, link) = w
  BY DEF Along, On
<1> HIDE DEF w
<1> DEFINE G == {i \in Nat : i <= NodeTotal => w[i] = v[i]}
<1>4. 0 \in G
  BY <1>0, <1>2
<1>5. ASSUME NEW i \in Nat, i \in G PROVE i + 1 \in G
  <2> SUFFICES ASSUME i + 1 <= NodeTotal PROVE w[i+1] = v[i+1]
    OBVIOUS
  <2>1. i + 1 \in 0..NodeTotal /\ i + 1 \in 1..NodeTotal /\ i + 1 # 0 /\ (i + 1) - 1 = i /\ i <= NodeTotal
    BY <1>0
  <2>2. w[i+1] = On(link)[w[i]]
    BY <1>2, <2>1
  <2>3. v[i+1] = On(link)[v[i]]
    BY <1>0, <2>1
  <2> QED
    BY <1>5, <2>1, <2>2, <2>3
<1> HIDE DEF G
<1>6. \A i \in Nat : i \in G
  BY <1>4, <1>5, AllNumbers
<1> QED
  BY <1>0, <1>3, <1>6 DEF G

\* There are n numbers from 1, or from 0, on.
LEMMA NumbersCounted ==
  ASSUME NEW n \in Nat
  PROVE  /\ IsFiniteSet(1..n) /\ Cardinality(1..n) = n
         /\ IsFiniteSet(0..n-1) /\ Cardinality(0..n-1) = n
<1>1. 1 \in Int /\ 0 \in Int /\ n \in Int /\ n - 1 \in Int
  OBVIOUS
<1>2. IsFiniteSet(1..n) /\ Cardinality(1..n) = IF 1 > n THEN 0 ELSE n-1+1
  BY <1>1, FS_Interval
<1>3. IsFiniteSet(0..n-1) /\ Cardinality(0..n-1) = IF 0 > n-1 THEN 0 ELSE (n-1)-0+1
  BY <1>1, FS_Interval
<1> QED
  BY <1>2, <1>3

\* A sequence of different nodes has as many as its range.
LEMMA DifferentCounted ==
  ASSUME NEW s \in Seq(Node), Distinct(s)
  PROVE  IsFiniteSet(Range(s)) /\ Cardinality(Range(s)) = Len(s)
<1>1. Len(s) \in Nat /\ DOMAIN s = 1..Len(s)
  BY LenProperties
<1>2. s \in [1..Len(s) -> Range(s)]
  BY <1>1 DEF Range
<1>3. s \in Bijection(1..Len(s), Range(s))
  BY <1>1, <1>2 DEF Bijection, Injection, Surjection, IsInjective, Range, Distinct
<1>4. IsFiniteSet(1..Len(s)) /\ Cardinality(1..Len(s)) = Len(s)
  BY <1>1, NumbersCounted
<1> QED
  BY <1>3, <1>4, FS_Bijection DEF ExistsBijection

\* There are NodeTotal nodes.
LEMMA NodesCounted == IsFiniteSet(Node) /\ Cardinality(Node) = NodeTotal /\ NodeTotal \in Nat
BY SizeAssumption, NumbersCounted DEF Node

\* A sequence of different nodes has no more than there are.
LEMMA LengthBounded ==
  ASSUME NEW s \in Seq(Node), Distinct(s)
  PROVE  Len(s) \in Nat /\ Len(s) <= NodeTotal
<1>1. Range(s) \subseteq Node
  BY RangeOfSeq
<1> QED
  BY <1>1, DifferentCounted, NodesCounted, FS_Subset, LenProperties

\* From first on a list is met, and nothing else.
LEMMA WalkIs ==
  ASSUME NEW s \in Seq(Node), Distinct(s), NEW first, NEW link, Leads(first, link, s)
  PROVE  Walk(first, link) = s
<1> DEFINE v == [i \in 0..NodeTotal |-> Nth(s, i + 1)]
           w == Along(first, link)
<1>1. Len(s) \in Nat /\ Len(s) <= NodeTotal /\ NodeTotal \in Nat
  BY LengthBounded, NodesCounted
<1>2. ASSUME NEW i \in 1..NodeTotal PROVE v[i] = On(link)[v[i-1]]
  <2>1. i \in 0..NodeTotal /\ i - 1 \in 0..NodeTotal /\ (i - 1) + 1 = i /\ i \in Nat \ {0}
    BY <1>1
  <2>2. v[i] = Nth(s, i + 1) /\ v[i-1] = Nth(s, i)
    BY <2>1
  <2>3. CASE i \in 1..Len(s)
    <3>1. Nth(s, i) = s[i] /\ s[i] \in Node /\ link[s[i]] = Nth(s, i + 1)
      BY <2>3 DEF Nth, Leads
    <3> QED
      BY <2>2, <3>1, NoNode DEF On
  <2>4. CASE i \notin 1..Len(s)
    <3>1. i + 1 \notin 1..Len(s)
      BY <1>1, <2>1, <2>4
    <3>2. Nth(s, i) = INVALID /\ Nth(s, i + 1) = INVALID
      BY <2>4, <3>1 DEF Nth
    <3> QED
      BY <2>2, <3>2, NoNode DEF On
  <2> QED
    BY <2>3, <2>4
<1>3. v[0] = first
  BY <1>1 DEF Leads
<1>4. \A i \in 0..NodeTotal : w[i] = Nth(s, i + 1)
  <2>1. v \in [0..NodeTotal -> Handle]
    <3>1. \A i \in 0..NodeTotal : i + 1 \in Int
      BY <1>1
    <3> QED
      BY <3>1, Somewhere
  <2>2. \A i \in 0..NodeTotal : v[i] = Nth(s, i + 1)
    OBVIOUS
  <2> HIDE DEF v, w
  <2>3. Met(first, link, v)
    BY <1>2, <1>3, <2>1 DEF Met
  <2>4. \A i \in 0..NodeTotal : Along(first, link)[i] = v[i]
    BY <2>3, AlongIs
  <2> QED
    BY <2>2, <2>4 DEF w
<1> HIDE DEF w, v
<1>5. {j \in 0..NodeTotal : w[j] # INVALID} = 0..Len(s)-1
  <2>1. ASSUME NEW j \in 0..NodeTotal PROVE w[j] # INVALID <=> j \in 0..Len(s)-1
    <3>1. j + 1 \in 1..Len(s) <=> j \in 0..Len(s)-1
      BY <1>1
    <3>2. \A k \in 1..Len(s) : s[k] # INVALID
      BY Somewhere, NoNode
    <3> QED
      BY <1>4, <3>1, <3>2 DEF Nth
  <2>2. 0..Len(s)-1 \subseteq 0..NodeTotal
    BY <1>1
  <2> QED
    BY <2>1, <2>2
<1>6. Cardinality({j \in 0..NodeTotal : w[j] # INVALID}) = Len(s)
  BY <1>1, <1>5, NumbersCounted
<1>7. Walk(first, link) = [i \in 1..Len(s) |-> w[i-1]]
  BY <1>6 DEF Walk, w
<1>8. ASSUME NEW i \in 1..Len(s) PROVE w[i-1] = s[i]
  <2>1. i - 1 \in 0..NodeTotal /\ (i - 1) + 1 = i
    BY <1>1
  <2> QED
    BY <1>4, <2>1 DEF Nth
<1>9. s = [i \in 1..Len(s) |-> s[i]]
  BY LenProperties
<1> QED
  BY <1>7, <1>8, <1>9

-----------------------------------------------------------------------------
(* The nodes under a key. *)

\* A node, if it has the key.
Piece(n, key, k) == IF key[n] = k THEN <<n>> ELSE <<>>

\* h gathers the nodes of l under key k, one by one.
Gathers(l, key, k, h) ==
  /\ h \in [0..Len(l) -> Seq(Node)] /\ h[0] = <<>>
  /\ \A i \in 1..Len(l) : h[i] = h[i-1] \o Piece(l[i], key, k)

\* What a node adds to those under a key.
LEMMA Pieces ==
  ASSUME NEW n \in Node, NEW key, NEW k
  PROVE  /\ Piece(n, key, k) \in Seq(Node)
         /\ Range(Piece(n, key, k)) = IF key[n] = k THEN {n} ELSE {}
<1>1. <<n>> \in Seq(Node) /\ <<>> \in Seq(Node) /\ Len(<<n>>) = 1 /\ <<n>>[1] = n
  OBVIOUS
<1>2. Range(<<n>>) = {n}
  <2>1. Range(<<n>>) = {<<n>>[i] : i \in 1..Len(<<n>>)}
    BY <1>1, RangeEquality
  <2> QED
    BY <1>1, <2>1
<1>3. Range(<<>>) = {}
  <2>1. <<>> \in Seq(Node) /\ 1..Len(<<>>) = {}
    OBVIOUS
  <2>2. Range(<<>>) = {<<>>[i] : i \in 1..Len(<<>>)}
    BY <2>1, RangeEquality
  <2> QED
    BY <2>1, <2>2
<1> QED
  BY <1>1, <1>2, <1>3 DEF Piece

\* Gathered one by one, the nodes under a key are those of Having.
LEMMA HavingIs ==
  ASSUME NEW l \in Seq(Node), NEW key, NEW k, NEW g, Gathers(l, key, k, g)
  PROVE  Having(l, key, k) = g[Len(l)]
<1> DEFINE Steps(h) == [i \in 0..Len(l) |->
                          IF i = 0 THEN <<>> ELSE h[i-1] \o (IF key[l[i]] = k THEN <<l[i]>> ELSE <<>>)]
           w == CHOOSE h : h = Steps(h)
<1>0. /\ Len(l) \in Nat
      /\ g \in [0..Len(l) -> Seq(Node)] /\ g[0] = <<>>
      /\ \A i \in 1..Len(l) : g[i] = g[i-1] \o (IF key[l[i]] = k THEN <<l[i]>> ELSE <<>>)
  BY LenProperties DEF Gathers, Piece
<1>1. g = Steps(g)
  <2>1. \A i \in 0..Len(l) :
          g[i] = IF i = 0 THEN <<>> ELSE g[i-1] \o (IF key[l[i]] = k THEN <<l[i]>> ELSE <<>>)
    <3> SUFFICES ASSUME NEW i \in 0..Len(l)
                 PROVE  g[i] = IF i = 0 THEN <<>> ELSE g[i-1] \o (IF key[l[i]] = k THEN <<l[i]>> ELSE <<>>)
      OBVIOUS
    <3>1. CASE i = 0
      BY <1>0, <3>1
    <3>2. CASE i # 0
      <4>1. i \in 1..Len(l)
        BY <1>0, <3>2
      <4>2. g[i] = g[i-1] \o (IF key[l[i]] = k THEN <<l[i]>> ELSE <<>>)
        BY <1>0, <4>1
      <4> QED
        BY <3>2, <4>2
    <3> QED
      BY <3>1, <3>2
  <2>2. g = [i \in 0..Len(l) |-> g[i]]
    BY <1>0
  <2>3. [i \in 0..Len(l) |-> g[i]] = Steps(g)
    BY <2>1
  <2> QED
    BY <2>2, <2>3
<1>2. w = Steps(w)
  BY <1>1
<1>3. Having(l, key, k) = w[Len(l)]
  BY DEF Having
<1> HIDE DEF w
<1> DEFINE G == {i \in Nat : i <= Len(l) => w[i] = g[i]}
<1>4. 0 \in G
  BY <1>0, <1>2
<1>5. ASSUME NEW i \in Nat, i \in G PROVE i + 1 \in G
  <2> SUFFICES ASSUME i + 1 <= Len(l) PROVE w[i+1] = g[i+1]
    OBVIOUS
  <2>1. i + 1 \in 0..Len(l) /\ i + 1 \in 1..Len(l) /\ i + 1 # 0 /\ (i + 1) - 1 = i /\ i <= Len(l)
    BY <1>0
  <2>2. w[i+1] = w[i] \o (IF key[l[i+1]] = k THEN <<l[i+1]>> ELSE <<>>)
    BY <1>2, <2>1
  <2>3. g[i+1] = g[i] \o (IF key[l[i+1]] = k THEN <<l[i+1]>> ELSE <<>>)
    BY <1>0, <2>1
  <2>4. w[i] = g[i]
    BY <1>5, <2>1
  <2> QED
    BY <2>2, <2>3, <2>4
<1> HIDE DEF G
<1>6. \A i \in Nat : i \in G
  BY <1>4, <1>5, AllNumbers
<1> QED
  BY <1>0, <1>3, <1>6 DEF G

\* What gathers is made longer with the list.
LEMMA GathersOn ==
  ASSUME NEW l \in Seq(Node), NEW n \in Node, NEW key, NEW k, NEW h, Gathers(l, key, k, h)
  PROVE  \E g : Gathers(Append(l, n), key, k, g) /\ g[Len(l) + 1] = h[Len(l)] \o Piece(n, key, k)
<1> DEFINE a == Append(l, n)
           x == h[Len(l)] \o Piece(n, key, k)
           g == [i \in 0..Len(l)+1 |-> IF i = Len(l) + 1 THEN x ELSE h[i]]
<1>0. /\ Len(l) \in Nat
      /\ h \in [0..Len(l) -> Seq(Node)] /\ h[0] = <<>>
      /\ \A i \in 1..Len(l) : h[i] = h[i-1] \o Piece(l[i], key, k)
  BY LenProperties DEF Gathers
<1>1. a \in Seq(Node) /\ Len(a) = Len(l) + 1 /\ a[Len(l)+1] = n /\ \A i \in 1..Len(l) : a[i] = l[i]
  BY AppendProperties
<1>2. x \in Seq(Node)
  <2>1. h[Len(l)] \in Seq(Node) /\ Piece(n, key, k) \in Seq(Node)
    BY <1>0, Pieces
  <2> QED
    BY <2>1, ConcatProperties
<1> HIDE DEF a, x
<1>3. g \in [0..Len(a) -> Seq(Node)] /\ g[0] = <<>> /\ g[Len(l)+1] = x
  BY <1>0, <1>1, <1>2
<1>4. ASSUME NEW i \in 1..Len(a) PROVE g[i] = g[i-1] \o Piece(a[i], key, k)
  <2>1. CASE i = Len(l) + 1
    <3>1. g[i] = x /\ g[i-1] = h[Len(l)] /\ a[i] = n
      BY <1>0, <1>1, <2>1
    <3> QED
      BY <3>1 DEF x
  <2>2. CASE i # Len(l) + 1
    <3>1. i \in 1..Len(l) /\ i - 1 \in 0..Len(l) /\ i \in 0..Len(l)+1 /\ i - 1 \in 0..Len(l)+1 /\ i - 1 # Len(l) + 1
      BY <1>0, <1>1, <2>2
    <3>2. g[i] = h[i] /\ g[i-1] = h[i-1] /\ a[i] = l[i]
      BY <1>1, <2>2, <3>1
    <3> QED
      BY <1>0, <3>1, <3>2
  <2> QED
    BY <2>1, <2>2
<1> HIDE DEF g
<1>5. Gathers(a, key, k, g)
  BY <1>3, <1>4 DEF Gathers
<1> QED
  BY <1>3, <1>5 DEF a, x

\* Every list can be gathered, the longer ones from the shorter.
LEMMA SomeGathers ==
  ASSUME NEW key, NEW k
  PROVE  \A l \in Seq(Node) : \E h : Gathers(l, key, k, h)
<1> DEFINE G == {l \in Seq(Node) : \E h : Gathers(l, key, k, h)}
<1>1. <<>> \in G
  <2> DEFINE h == [i \in 0..0 |-> <<>>]
  <2>1. <<>> \in Seq(Node) /\ Len(<<>>) = 0
    BY EmptySeq
  <2>2. h \in [0..Len(<<>>) -> Seq(Node)] /\ h[0] = <<>>
    BY <2>1
  <2>3. 1..Len(<<>>) = {}
    BY <2>1
  <2> HIDE DEF h
  <2>4. Gathers(<<>>, key, k, h)
    BY <2>2, <2>3 DEF Gathers
  <2> QED
    BY <2>1, <2>4
<1>2. ASSUME NEW l \in Seq(Node), NEW n \in Node, l \in G PROVE Append(l, n) \in G
  <2>1. PICK h : Gathers(l, key, k, h)
    BY <1>2
  <2>2. \E g : Gathers(Append(l, n), key, k, g)
    BY <2>1, GathersOn
  <2>3. Append(l, n) \in Seq(Node)
    BY AppendProperties
  <2> QED
    BY <2>2, <2>3
<1> HIDE DEF G
<1>3. \A l \in Seq(Node) : l \in G
  BY <1>1, <1>2, AllSequences
<1> QED
  BY <1>3 DEF G

\* The nodes under a key, of no list and of a longer list.
LEMMA HavingSteps ==
  ASSUME NEW key, NEW k
  PROVE  /\ Having(<<>>, key, k) = <<>>
         /\ \A l \in Seq(Node) : Having(l, key, k) \in Seq(Node)
         /\ \A l \in Seq(Node), n \in Node :
              Having(Append(l, n), key, k) = Having(l, key, k) \o Piece(n, key, k)
<1>1. Having(<<>>, key, k) = <<>>
  <2>1. <<>> \in Seq(Node) /\ Len(<<>>) = 0
    BY EmptySeq
  <2>2. PICK h : Gathers(<<>>, key, k, h)
    BY <2>1, SomeGathers
  <2>3. h[0] = <<>>
    BY <2>2 DEF Gathers
  <2> QED
    BY <2>1, <2>2, <2>3, HavingIs
<1>2. ASSUME NEW l \in Seq(Node) PROVE Having(l, key, k) \in Seq(Node)
  <2>1. PICK h : Gathers(l, key, k, h)
    BY SomeGathers
  <2>2. Having(l, key, k) = h[Len(l)]
    BY <2>1, HavingIs
  <2>3. Len(l) \in 0..Len(l)
    BY LenProperties
  <2> QED
    BY <2>1, <2>2, <2>3 DEF Gathers
<1>3. ASSUME NEW l \in Seq(Node), NEW n \in Node
      PROVE  Having(Append(l, n), key, k) = Having(l, key, k) \o Piece(n, key, k)
  <2>1. PICK h : Gathers(l, key, k, h)
    BY SomeGathers
  <2>2. PICK g : Gathers(Append(l, n), key, k, g) /\ g[Len(l) + 1] = h[Len(l)] \o Piece(n, key, k)
    BY <2>1, GathersOn
  <2>3. Append(l, n) \in Seq(Node) /\ Len(Append(l, n)) = Len(l) + 1
    BY AppendProperties
  <2>4. Having(l, key, k) = h[Len(l)] /\ Having(Append(l, n), key, k) = g[Len(l) + 1]
    BY <2>1, <2>2, <2>3, HavingIs
  <2> QED
    BY <2>2, <2>4
<1> QED
  BY <1>1, <1>2, <1>3

\* The nodes of a set that have key k.
Under(S, key, k) == {n \in S : key[n] = k}

\* Exactly the nodes with the key are gathered.
LEMMA HavingRange ==
  ASSUME NEW key, NEW k
  PROVE  \A l \in Seq(Node) : Range(Having(l, key, k)) = Under(Range(l), key, k)
<1> DEFINE G == {l \in Seq(Node) : Range(Having(l, key, k)) = Under(Range(l), key, k)}
<1>0. <<>> \in Seq(Node) /\ Range(<<>>) = {}
  <2>1. <<>> \in Seq(Node) /\ 1..Len(<<>>) = {}
    OBVIOUS
  <2>2. Range(<<>>) = {<<>>[i] : i \in 1..Len(<<>>)}
    BY <2>1, RangeEquality
  <2> QED
    BY <2>1, <2>2
<1>1. <<>> \in G
  BY <1>0, HavingSteps DEF Under
<1>2. ASSUME NEW l \in Seq(Node), NEW n \in Node, l \in G PROVE Append(l, n) \in G
  <2>1. Append(l, n) = l \o <<n>> /\ <<n>> \in Seq(Node) /\ Append(l, n) \in Seq(Node)
    BY AppendIsConcat
  <2>2. Range(Append(l, n)) = Range(l) \cup Range(<<n>>)
    BY <2>1, RangeConcatenation, ZenonT(30)
  <2>3. Range(<<n>>) = {n}
    <3>1. Range(<<n>>) = {<<n>>[i] : i \in 1..1}
      BY <2>1, RangeEquality
    <3> QED
      BY <3>1
  <2>4. /\ Having(Append(l, n), key, k) = Having(l, key, k) \o Piece(n, key, k)
        /\ Having(l, key, k) \in Seq(Node)
    BY HavingSteps
  <2>5. Range(Having(Append(l, n), key, k)) = Range(Having(l, key, k)) \cup Range(Piece(n, key, k))
    BY <2>4, Pieces, RangeConcatenation
  <2>6. Range(Piece(n, key, k)) = IF key[n] = k THEN {n} ELSE {}
    BY Pieces
  <2>7. Range(Having(l, key, k)) = Under(Range(l), key, k)
    BY <1>2
  <2>8. Range(Having(Append(l, n), key, k)) = Under(Range(Append(l, n)), key, k)
    BY <2>2, <2>3, <2>5, <2>6, <2>7 DEF Under
  <2> QED
    BY <2>1, <2>8
<1> HIDE DEF G
<1>3. \A l \in Seq(Node) : l \in G
  BY <1>1, <1>2, AllSequences
<1> QED
  BY <1>3 DEF G

\* Two lists after each other are gathered one after the other.
LEMMA HavingConcat ==
  ASSUME NEW key, NEW k, NEW a \in Seq(Node)
  PROVE  \A b \in Seq(Node) : Having(a \o b, key, k) = Having(a, key, k) \o Having(b, key, k)
<1> DEFINE H(l) == Having(l, key, k)
           G == {b \in Seq(Node) : H(a \o b) = H(a) \o H(b)}
<1>0. /\ H(<<>>) = <<>>
      /\ \A l \in Seq(Node) : H(l) \in Seq(Node)
      /\ \A l \in Seq(Node), n \in Node : H(Append(l, n)) = H(l) \o Piece(n, key, k)
  BY HavingSteps
<1> HIDE DEF H
<1>1. <<>> \in G
  <2>1. a \o <<>> = a /\ H(a) \o <<>> = H(a) /\ <<>> \in Seq(Node)
    BY <1>0, ConcatEmptySeq, EmptySeq
  <2> QED
    BY <1>0, <2>1
<1>2. ASSUME NEW b \in Seq(Node), NEW n \in Node, b \in G PROVE Append(b, n) \in G
  <2>1. /\ Append(b, n) \in Seq(Node) /\ a \o b \in Seq(Node) /\ <<n>> \in Seq(Node)
        /\ Append(b, n) = b \o <<n>> /\ Append(a \o b, n) = (a \o b) \o <<n>>
    BY AppendProperties, AppendIsConcat, ConcatProperties
  <2>2. a \o Append(b, n) = Append(a \o b, n)
    BY <2>1, ConcatAssociative
  <2>3. H(a \o Append(b, n)) = H(a \o b) \o Piece(n, key, k)
    BY <1>0, <2>1, <2>2
  <2>4. H(a \o b) = H(a) \o H(b)
    BY <1>2
  <2>5. H(a) \in Seq(Node) /\ H(b) \in Seq(Node) /\ Piece(n, key, k) \in Seq(Node)
    BY <1>0, Pieces
  <2>6. (H(a) \o H(b)) \o Piece(n, key, k) = H(a) \o (H(b) \o Piece(n, key, k))
    BY <2>5, ConcatAssociative, SMTT(20)
  <2>7. H(Append(b, n)) = H(b) \o Piece(n, key, k)
    BY <1>0
  <2>8. H(a \o Append(b, n)) = H(a) \o H(Append(b, n))
    BY <2>3, <2>4, <2>6, <2>7
  <2> QED
    BY <2>1, <2>8
<1> HIDE DEF G
<1>3. \A b \in Seq(Node) : b \in G
  BY <1>1, <1>2, AllSequences
<1> QED
  BY <1>3 DEF G, H

\* A node put before a list comes before those gathered.
LEMMA HavingPushed ==
  ASSUME NEW key, NEW k, NEW l \in Seq(Node), NEW n \in Node
  PROVE  Having(<<n>> \o l, key, k) = Piece(n, key, k) \o Having(l, key, k)
<1>1. <<n>> \in Seq(Node) /\ <<>> \in Seq(Node) /\ Append(<<>>, n) = <<>> \o <<n>> /\ <<>> \o <<n>> = <<n>>
  BY AppendIsConcat, ConcatEmptySeq, EmptySeq
<1>2. Having(<<n>>, key, k) = Piece(n, key, k)
  <2>1. Having(Append(<<>>, n), key, k) = Having(<<>>, key, k) \o Piece(n, key, k)
    BY <1>1, HavingSteps
  <2>2. Append(<<>>, n) = <<n>>
    BY <1>1, Zenon
  <2>3. Having(<<n>>, key, k) = <<>> \o Piece(n, key, k)
    BY <2>1, <2>2, HavingSteps, Zenon
  <2>4. <<>> \o Piece(n, key, k) = Piece(n, key, k)
    BY Pieces, ConcatEmptySeq
  <2> QED
    BY <2>3, <2>4, Zenon
<1>3. Having(<<n>> \o l, key, k) = Having(<<n>>, key, k) \o Having(l, key, k)
  BY <1>1, HavingConcat
<1> QED
  BY <1>2, <1>3

\* Only the keys of its nodes count.
LEMMA HavingSame ==
  ASSUME NEW key, NEW other, NEW k
  PROVE  \A l \in Seq(Node) :
           (\A n \in Range(l) : other[n] = key[n]) => Having(l, other, k) = Having(l, key, k)
<1> DEFINE Same(l) == \A n \in Range(l) : other[n] = key[n]
           G == {l \in Seq(Node) : Same(l) => Having(l, other, k) = Having(l, key, k)}
<1>1. <<>> \in G
  BY HavingSteps, EmptySeq
<1>2. ASSUME NEW l \in Seq(Node), NEW n \in Node, l \in G PROVE Append(l, n) \in G
  <2> SUFFICES ASSUME Same(Append(l, n))
               PROVE  Having(Append(l, n), other, k) = Having(Append(l, n), key, k)
    BY AppendProperties
  <2>1. Append(l, n) = l \o <<n>> /\ <<n>> \in Seq(Node)
    BY AppendIsConcat
  <2>2. Range(Append(l, n)) = Range(l) \cup Range(<<n>>)
    BY <2>1, RangeConcatenation
  <2>3. n \in Range(<<n>>)
    <3>1. Range(<<n>>) = {<<n>>[i] : i \in 1..1}
      BY <2>1, RangeEquality
    <3> QED
      BY <3>1
  <2>4. Same(l) /\ other[n] = key[n]
    BY <2>2, <2>3
  <2>5. Having(l, other, k) = Having(l, key, k)
    BY <1>2, <2>4
  <2>6. Piece(n, other, k) = Piece(n, key, k)
    BY <2>4 DEF Piece
  <2>7. /\ Having(Append(l, n), other, k) = Having(l, other, k) \o Piece(n, other, k)
        /\ Having(Append(l, n), key, k) = Having(l, key, k) \o Piece(n, key, k)
    BY HavingSteps
  <2> QED
    BY <2>5, <2>6, <2>7
<1> HIDE DEF G
<1>3. \A l \in Seq(Node) : l \in G
  BY <1>1, <1>2, AllSequences
<1> QED
  BY <1>3 DEF G

\* A sequence around its i-th element.
LEMMA Around ==
  ASSUME NEW l \in Seq(Node), NEW i \in 1..Len(l)
  PROVE  \E a, b \in Seq(Node) :
           /\ l = a \o (<<l[i]>> \o b) /\ RemoveAt(l, i) = a \o b
           /\ Len(a) = i - 1 /\ \A j \in 1..i-1 : a[j] = l[j]
<1> DEFINE a == SubSeq(l, 1, i - 1)
           b == SubSeq(l, i + 1, Len(l))
<1>1. Len(l) \in Nat /\ i \in Int /\ 1 <= i /\ i <= Len(l) /\ \A j \in 1..Len(l) : l[j] \in Node
  OBVIOUS
<1>2. a \in Seq(Node) /\ Len(a) = i - 1 /\ \A j \in 1..i-1 : a[j] = l[j]
  <2>1. \A j \in 1..i-1 : l[j] \in Node
    BY <1>1
  <2>2. /\ a \in Seq(Node) /\ Len(a) = IF 1 <= i - 1 THEN i - 1 - 1 + 1 ELSE 0
        /\ \A j \in 1..(i-1)-1+1 : a[j] = l[1+j-1]
    BY <1>1, <2>1, SubSeqProperties, i - 1 \in Int, 1 \in Int
  <2> HIDE DEF a
  <2> QED
    BY <1>1, <2>2
<1>3. b \in Seq(Node)
  <2>1. \A j \in i+1..Len(l) : l[j] \in Node
    BY <1>1
  <2> QED
    BY <1>1, <2>1, SubSeqProperties, i + 1 \in Int, Len(l) \in Int
<1>4. RemoveAt(l, i) = a \o b
  BY DEF RemoveAt
<1>5. l = a \o (<<l[i]>> \o b)
  <2>1. SubSeq(l, i, Len(l)) = <<l[i]>> \o b
    BY <1>1, SubSeqRecursiveFirst, i \in 1..Len(l), Len(l) \in i..Len(l)
  <2>2. SubSeq(l, 1, i - 1) \o SubSeq(l, (i - 1) + 1, Len(l)) = SubSeq(l, 1, Len(l))
    <3>1. 1 \in 1..Len(l)+1 /\ i - 1 \in 1-1..Len(l) /\ Len(l) \in i-1..Len(l)
      BY <1>1
    <3> QED
      BY <3>1, ConcatAdjacentSubSeq
  <2>3. (i - 1) + 1 = i
    BY <1>1
  <2>4. SubSeq(l, 1, Len(l)) = l
    BY SubSeqFull
  <2> QED
    BY <2>1, <2>2, <2>3, <2>4
<1> HIDE DEF a, b
<1> QED
  BY <1>2, <1>3, <1>4, <1>5

\* What is left when the node between two lists is taken out.
LEMMA MiddleCut ==
  ASSUME NEW a \in Seq(Node), NEW b \in Seq(Node), NEW n \in Node
  PROVE  LET s == a \o (<<n>> \o b)
             j == Len(a) + 1
         IN /\ s \in Seq(Node) /\ j \in 1..Len(s) /\ s[j] = n /\ RemoveAt(s, j) = a \o b
            /\ Len(s) = Len(a) + Len(b) + 1
<1> DEFINE t == <<n>> \o b
           s == a \o t
           j == Len(a) + 1
           r == RemoveAt(s, j)
           c == a \o b
<1>0. Len(a) \in Nat /\ Len(b) \in Nat
  BY LenProperties
<1>1. t \in Seq(Node) /\ Len(t) = Len(b) + 1 /\ t[1] = n /\ \A i \in 1..Len(b) : t[i+1] = b[i]
  BY Pushed
<1> HIDE DEF t
<1>2. /\ s \in Seq(Node) /\ Len(s) = Len(a) + Len(t)
      /\ \A i \in 1..Len(a)+Len(t) : s[i] = IF i <= Len(a) THEN a[i] ELSE t[i - Len(a)]
  BY <1>1, ConcatProperties
<1>3. /\ c \in Seq(Node) /\ Len(c) = Len(a) + Len(b)
      /\ \A i \in 1..Len(a)+Len(b) : c[i] = IF i <= Len(a) THEN a[i] ELSE b[i - Len(a)]
  BY ConcatProperties
<1> HIDE DEF s, c
<1>4. j \in 1..Len(s) /\ Len(s) = Len(a) + Len(b) + 1
  BY <1>0, <1>1, <1>2
<1>5. s[j] = n
  <2>1. ~ (j <= Len(a)) /\ j - Len(a) = 1 /\ j \in 1..Len(a)+Len(t)
    BY <1>0, <1>1
  <2> QED
    BY <1>1, <1>2, <2>1
<1>6. /\ r \in Seq(Node) /\ Len(r) = Len(s) - 1
      /\ \A i \in 1..Len(s)-1 : r[i] = IF i < j THEN s[i] ELSE s[i + 1]
  BY <1>2, <1>4, CutOut
<1> HIDE DEF r
<1>7. r = c
  <2>1. Len(r) = Len(c)
    BY <1>0, <1>3, <1>4, <1>6
  <2>2. ASSUME NEW i \in 1..Len(r) PROVE r[i] = c[i]
    <3>0. i \in Int /\ 1 <= i /\ i <= Len(a) + Len(b) /\ i \in 1..Len(s)-1 /\ i \in 1..Len(a)+Len(b)
      BY <1>0, <1>3, <1>4, <2>1
    <3>1. CASE i <= Len(a)
      <4>1. i < j /\ i \in 1..Len(a)+Len(t)
        BY <1>0, <1>1, <3>0, <3>1
      <4>2. r[i] = s[i] /\ s[i] = a[i] /\ c[i] = a[i]
        BY <1>2, <1>3, <1>6, <3>0, <3>1, <4>1
      <4> QED
        BY <4>2
    <3>2. CASE ~ (i <= Len(a))
      <4>1. /\ ~ (i < j) /\ i + 1 \in 1..Len(a)+Len(t) /\ ~ (i + 1 <= Len(a))
            /\ (i + 1) - Len(a) = (i - Len(a)) + 1 /\ i - Len(a) \in 1..Len(b)
        BY <1>0, <1>1, <3>0, <3>2
      <4>2. r[i] = s[i+1]
        BY <1>6, <3>0, <4>1
      <4>3. s[i+1] = t[(i - Len(a)) + 1]
        BY <1>2, <4>1
      <4>4. c[i] = b[i - Len(a)]
        BY <1>3, <3>0, <3>2
      <4> QED
        BY <1>1, <4>1, <4>2, <4>3, <4>4
    <3> QED
      BY <3>1, <3>2
  <2>3. r = [i \in 1..Len(r) |-> r[i]] /\ c = [i \in 1..Len(c) |-> c[i]]
    BY <1>3, <1>6, LenProperties
  <2> QED
    BY <2>1, <2>2, <2>3
<1> QED
  BY <1>2, <1>4, <1>5, <1>7 DEF s, t, c, r

\* A list without its i-th node: its nodes under a key are without it too.
LEMMA HavingCut ==
  ASSUME NEW key, NEW k, NEW l \in Seq(Node), NEW i \in 1..Len(l)
  PROVE  LET h == Having(l, key, k)
             c == Having(RemoveAt(l, i), key, k)
         IN /\ key[l[i]] # k => c = h
            /\ key[l[i]] = k => \E j \in 1..Len(h) : h[j] = l[i] /\ c = RemoveAt(h, j)
<1> DEFINE H(s) == Having(s, key, k)
<1>1. PICK a \in Seq(Node), b \in Seq(Node) : l = a \o (<<l[i]>> \o b) /\ RemoveAt(l, i) = a \o b
  BY Around
<1> DEFINE n == l[i]
           c == RemoveAt(l, i)
<1>2. n \in Node
  OBVIOUS
<1>3. l = a \o (<<n>> \o b) /\ c = a \o b
  BY <1>1
<1> HIDE DEF n, c
<1>4. <<n>> \o b \in Seq(Node)
  BY <1>2, Pushed
<1>5. H(c) = H(a) \o H(b) /\ H(l) = H(a) \o (Piece(n, key, k) \o H(b))
  <2>1. H(a \o b) = H(a) \o H(b)
    BY HavingConcat
  <2>2. H(a \o (<<n>> \o b)) = H(a) \o H(<<n>> \o b)
    BY <1>4, HavingConcat
  <2>3. H(<<n>> \o b) = Piece(n, key, k) \o H(b)
    BY <1>2, HavingPushed
  <2> HIDE DEF H
  <2> QED
    BY <1>3, <2>1, <2>2, <2>3, Zenon
<1>6. H(a) \in Seq(Node) /\ H(b) \in Seq(Node)
  BY HavingSteps
<1> HIDE DEF H
<1>7. CASE key[n] # k
  <2>1. Piece(n, key, k) = <<>>
    BY <1>7 DEF Piece
  <2>2. <<>> \o H(b) = H(b)
    BY <1>6, ConcatEmptySeq
  <2>3. H(c) = H(l)
    BY <1>5, <2>1, <2>2
  <2> QED
    BY <1>7, <2>3 DEF H, n, c
<1>8. CASE key[n] = k
  <2>1. Piece(n, key, k) = <<n>>
    BY <1>8 DEF Piece
  <2>2. H(l) = H(a) \o (<<n>> \o H(b))
    BY <1>5, <2>1
  <2>3. \E j \in 1..Len(H(l)) : H(l)[j] = n /\ H(c) = RemoveAt(H(l), j)
    <3> DEFINE x == H(a)
               y == H(b)
    <3>1. x \in Seq(Node) /\ y \in Seq(Node) /\ H(l) = x \o (<<n>> \o y) /\ H(c) = x \o y
      BY <1>5, <1>6, <2>2
    <3> HIDE DEF x, y
    <3> DEFINE z == x \o (<<n>> \o y)
    <3>2. Len(x) + 1 \in 1..Len(z) /\ z[Len(x) + 1] = n /\ RemoveAt(z, Len(x) + 1) = x \o y
      BY <1>2, <3>1, MiddleCut
    <3> HIDE DEF z
    <3>3. H(l) = z
      BY <3>1 DEF z
    <3> QED
      BY <3>1, <3>2, <3>3
  <2> QED
    BY <1>8, <2>3 DEF H, n, c
<1> QED
  BY <1>7, <1>8

\* A node added at the end, which is new exactly when no node is there twice.
LEMMA Appended ==
  ASSUME NEW s \in Seq(Node), NEW n \in Node
  PROVE  LET t == Append(s, n)
         IN /\ t \in Seq(Node) /\ Range(t) = Range(s) \cup {n}
            /\ Distinct(t) <=> Distinct(s) /\ n \notin Range(s)
<1> DEFINE t == Append(s, n)
<1>1. /\ t \in Seq(Node) /\ Len(t) = Len(s) + 1 /\ t[Len(s)+1] = n
      /\ \A i \in 1..Len(s) : t[i] = s[i]
  BY AppendProperties
<1>2. Range(t) = Range(s) \cup {n}
  <2>1. t = s \o <<n>> /\ <<n>> \in Seq(Node)
    BY AppendIsConcat
  <2>2. Range(t) = Range(s) \cup Range(<<n>>)
    BY <2>1, RangeConcatenation, ZenonT(30)
  <2>3. Range(<<n>>) = {n}
    <3>1. Range(<<n>>) = {<<n>>[i] : i \in 1..1}
      BY <2>1, RangeEquality
    <3> QED
      BY <3>1
  <2> QED
    BY <2>2, <2>3
<1> HIDE DEF t
<1>3. Len(s) \in Nat /\ Range(s) = {s[i] : i \in 1..Len(s)}
  BY LenProperties, RangeEquality
<1>4. ASSUME Distinct(t) PROVE Distinct(s) /\ n \notin Range(s)
  <2>1. \A i, j \in 1..Len(s)+1 : t[i] = t[j] => i = j
    BY <1>1, <1>4 DEF Distinct
  <2>2. \A i \in 1..Len(s) : i \in 1..Len(s)+1 /\ i # Len(s) + 1
    BY <1>3
  <2>3. Len(s) + 1 \in 1..Len(s)+1
    BY <1>3
  <2>4. Distinct(s)
    BY <1>1, <2>1, <2>2 DEF Distinct
  <2>5. \A i \in 1..Len(s) : s[i] # n
    BY <1>1, <2>1, <2>2, <2>3
  <2> QED
    BY <1>3, <2>4, <2>5
<1>5. ASSUME Distinct(s), n \notin Range(s) PROVE Distinct(t)
  <2> SUFFICES ASSUME NEW i \in 1..Len(t), NEW j \in 1..Len(t), t[i] = t[j] PROVE i = j
    BY DEF Distinct
  <2>1. \A x \in 1..Len(t) : (x = Len(s) + 1 /\ t[x] = n) \/ (x \in 1..Len(s) /\ t[x] = s[x] /\ t[x] # n)
    BY <1>1, <1>3, <1>5
  <2>2. CASE t[i] = n
    BY <2>1, <2>2
  <2>3. CASE t[i] # n
    <3>1. i \in 1..Len(s) /\ j \in 1..Len(s) /\ s[i] = s[j]
      BY <2>1, <2>3
    <3> QED
      BY <1>5, <3>1 DEF Distinct
  <2> QED
    BY <2>2, <2>3
<1> QED
  BY <1>1, <1>2, <1>4, <1>5 DEF t

\* No node is gathered twice.
LEMMA HavingDistinct ==
  ASSUME NEW key, NEW k
  PROVE  \A l \in Seq(Node) : Distinct(l) => Distinct(Having(l, key, k))
<1> DEFINE H(l) == Having(l, key, k)
           G == {l \in Seq(Node) : Distinct(l) => Distinct(H(l))}
<1>0. /\ H(<<>>) = <<>> /\ \A l \in Seq(Node) : H(l) \in Seq(Node)
      /\ \A l \in Seq(Node), n \in Node : H(Append(l, n)) = H(l) \o Piece(n, key, k)
  BY HavingSteps
<1>00. \A l \in Seq(Node) : Range(H(l)) = Under(Range(l), key, k)
  BY HavingRange
<1> HIDE DEF H
<1>1. <<>> \in G
  <2>1. <<>> \in Seq(Node) /\ 1..Len(<<>>) = {}
    OBVIOUS
  <2> QED
    BY <1>0, <2>1 DEF Distinct
<1>2. ASSUME NEW l \in Seq(Node), NEW n \in Node, l \in G PROVE Append(l, n) \in G
  <2>1. Append(l, n) \in Seq(Node)
    BY Appended
  <2> SUFFICES ASSUME Distinct(Append(l, n)) PROVE Distinct(H(Append(l, n)))
    BY <2>1
  <2>2. Distinct(l) /\ n \notin Range(l)
    BY Appended
  <2>3. Distinct(H(l)) /\ n \notin Range(H(l)) /\ H(l) \in Seq(Node)
    BY <1>0, <1>00, <1>2, <2>2 DEF Under
  <2>4. H(Append(l, n)) = H(l) \o Piece(n, key, k)
    BY <1>0
  <2>5. CASE key[n] = k
    <3>1. H(Append(l, n)) = Append(H(l), n)
      BY <2>3, <2>4, <2>5, AppendIsConcat DEF Piece
    <3> QED
      BY <2>3, <3>1, Appended
  <2>6. CASE key[n] # k
    <3>1. H(Append(l, n)) = H(l)
      BY <2>3, <2>4, <2>6, ConcatEmptySeq DEF Piece
    <3> QED
      BY <2>3, <3>1
  <2> QED
    BY <2>5, <2>6
<1> HIDE DEF G
<1>3. \A l \in Seq(Node) : l \in G
  BY <1>1, <1>2, AllSequences
<1> QED
  BY <1>3 DEF G, H

-----------------------------------------------------------------------------
(* The search. *)

\* There is a first node with the key, at i, or i is behind the list.
FirstAt(l, key, k, i) ==
  /\ i \in 1..Len(l)+1 /\ i \in Nat
  /\ \A j \in 1..Len(l) : j < i => key[l[j]] # k
  /\ i <= Len(l) => key[l[i]] = k

\* A list has a first node under a key, or none at all.
LEMMA SomeFirst ==
  ASSUME NEW l \in Seq(Node), NEW key, NEW k
  PROVE  \E i : FirstAt(l, key, k, i)
<1> DEFINE S == {i \in 1..Len(l) : key[l[i]] = k}
<1>0. Len(l) \in Nat
  BY LenProperties
<1>1. CASE S = {}
  <2>1. \A j \in 1..Len(l) : key[l[j]] # k
    BY <1>1
  <2>2. Len(l) + 1 \in 1..Len(l)+1 /\ ~ (Len(l) + 1 <= Len(l)) /\ Len(l) + 1 \in Nat
    BY <1>0
  <2>3. FirstAt(l, key, k, Len(l) + 1)
    BY <2>1, <2>2 DEF FirstAt
  <2> QED
    BY <2>3
<1>2. CASE S # {}
  <2>0. S \subseteq Nat
    BY <1>0
  <2>1. PICK i \in S : \A j \in S : ~ (<<j, i>> \in OpToRel(<, Nat))
    BY <1>2, <2>0, NatLessThanWellFounded, WFMin
  <2>2. ASSUME NEW j \in S PROVE ~ (j < i)
    <3>1. i \in Nat /\ j \in Nat
      BY <2>0
    <3> QED
      BY <2>1, <3>1 DEF OpToRel
  <2>3. i \in 1..Len(l) /\ key[l[i]] = k /\ i \in 1..Len(l)+1 /\ i \in Nat
    BY <1>0
  <2> HIDE DEF S
  <2>4. \A j \in 1..Len(l) : j < i => key[l[j]] # k
    BY <2>2 DEF S
  <2>5. FirstAt(l, key, k, i)
    BY <2>3, <2>4 DEF FirstAt
  <2> QED
    BY <2>5
<1> QED
  BY <1>1, <1>2

\* The nodes under the key begin with it.
LEMMA HavingFirst ==
  ASSUME NEW l \in Seq(Node), NEW key, NEW k, NEW i, FirstAt(l, key, k, i)
  PROVE  LET h == Having(l, key, k)
         IN IF i <= Len(l) THEN h # <<>> /\ h[1] = l[i] ELSE h = <<>>
<1> DEFINE H(s) == Having(s, key, k)
<1>0. Len(l) \in Nat /\ i \in Nat /\ i \in 1..Len(l)+1
  BY LenProperties DEF FirstAt
<1>1. ASSUME NEW s \in Seq(Node), \A j \in 1..Len(s) : key[s[j]] # k PROVE H(s) = <<>>
  <2>0. H(s) \in Seq(Node)
    BY HavingSteps
  <2>1. H(s) \in Seq(Node) /\ Range(H(s)) = Under(Range(s), key, k)
    BY <2>0, HavingRange
  <2> HIDE DEF H
  <2>2. \A n \in Range(s) : key[n] # k
    BY <1>1, Somewhere
  <2>3. Range(H(s)) = {}
    BY <2>1, <2>2 DEF Under
  <2>4. Len(H(s)) \in Nat /\ \A j \in 1..Len(H(s)) : H(s)[j] \in Range(H(s))
    BY <2>1, Somewhere
  <2>5. Len(H(s)) = 0
    <3> SUFFICES ASSUME Len(H(s)) # 0 PROVE FALSE
      OBVIOUS
    <3>1. 1 \in 1..Len(H(s))
      BY <2>4
    <3> QED
      BY <2>3, <2>4, <3>1
  <2> QED
    BY <2>1, <2>5, EmptySeq
<1>2. CASE i <= Len(l)
  <2>1. i \in 1..Len(l) /\ key[l[i]] = k /\ l[i] \in Node
    BY <1>0, <1>2 DEF FirstAt
  <2>2. PICK a \in Seq(Node), b \in Seq(Node) :
          l = a \o (<<l[i]>> \o b) /\ Len(a) = i - 1 /\ \A j \in 1..i-1 : a[j] = l[j]
    BY <2>1, Around
  <2> DEFINE n == l[i]
  <2>3. n \in Node /\ key[n] = k /\ l = a \o (<<n>> \o b)
    BY <2>1, <2>2
  <2>4. H(a) = <<>>
    <3>1. \A j \in 1..Len(a) : j \in 1..Len(l) /\ j < i /\ a[j] = l[j]
      BY <1>0, <1>2, <2>2
    <3>2. \A j \in 1..Len(a) : key[a[j]] # k
      BY <3>1 DEF FirstAt
    <3> QED
      BY <1>1, <3>2
  <2> HIDE DEF n
  <2>5. <<n>> \o b \in Seq(Node)
    BY <2>3, Pushed
  <2>6. H(l) = H(a) \o H(<<n>> \o b) /\ H(<<n>> \o b) = Piece(n, key, k) \o H(b)
    <3>1. H(a \o (<<n>> \o b)) = H(a) \o H(<<n>> \o b)
      BY <2>5, HavingConcat
    <3>2. H(<<n>> \o b) = Piece(n, key, k) \o H(b)
      BY <2>3, HavingPushed
    <3> HIDE DEF H
    <3> QED
      BY <2>3, <3>1, <3>2, Zenon
  <2>7. H(b) \in Seq(Node) /\ H(<<n>> \o b) \in Seq(Node)
    BY <2>5, HavingSteps
  <2> HIDE DEF H
  <2>8. Piece(n, key, k) = <<n>>
    BY <2>3 DEF Piece
  <2>9. H(l) = <<n>> \o H(b)
    BY <2>4, <2>6, <2>7, <2>8, ConcatEmptySeq
  <2>10. H(l) # <<>> /\ H(l)[1] = n
    BY <2>3, <2>7, <2>9, Pushed, SMTT(20)
  <2> QED
    BY <1>2, <2>10 DEF H, n
<1>3. CASE ~ (i <= Len(l))
  <2>1. \A j \in 1..Len(l) : j < i
    BY <1>0, <1>3
  <2>2. H(l) = <<>>
    BY <1>1, <2>1 DEF FirstAt
  <2> QED
    BY <1>3, <2>2
<1> QED
  BY <1>2, <1>3

\* So the search returns the first of them.
LEMMA NodeOfIs ==
  ASSUME NEW mem, NEW k, NEW l \in Seq(Node), Distinct(l),
         Leads(mem.bucket[GetBucketId(k)], mem.next, l)
  PROVE  LET h == Having(l, mem.key, k)
         IN NodeOf(mem, k) = IF h = <<>> THEN INVALID ELSE h[1]
<1> DEFINE first == mem.bucket[GetBucketId(k)]
           key == mem.key
           link == [n \in Node |-> IF key[n] = k THEN n ELSE mem.next[n]]
<1>1. PICK i : FirstAt(l, key, k, i)
  BY SomeFirst
<1> DEFINE at(j) == IF j < i THEN j ELSE i
           v == [j \in 0..NodeTotal |-> Nth(l, at(j + 1))]
<1>2. Len(l) \in Nat /\ Len(l) <= NodeTotal /\ NodeTotal \in Nat
  BY LengthBounded, NodesCounted
<1>3. i \in Nat /\ 1 <= i /\ i <= Len(l) + 1
  BY <1>1, <1>2 DEF FirstAt
<1>4. v \in [0..NodeTotal -> Handle]
  <2>1. \A j \in 0..NodeTotal : at(j + 1) \in Int
    BY <1>2, <1>3
  <2> QED
    BY <2>1, Somewhere
<1>5. v[0] = first
  <2>1. at(0 + 1) = 1 /\ 0 \in 0..NodeTotal
    BY <1>2, <1>3
  <2> QED
    BY <2>1 DEF Leads
<1>6. ASSUME NEW j \in 1..NodeTotal PROVE v[j] = On(link)[v[j-1]]
  <2>1. j \in 0..NodeTotal /\ j - 1 \in 0..NodeTotal /\ (j - 1) + 1 = j /\ j \in Nat
    BY <1>2
  <2>2. v[j] = Nth(l, at(j + 1)) /\ v[j-1] = Nth(l, at(j))
    BY <2>1
  <2>3. CASE j < i
    <3>1. at(j + 1) = j + 1 /\ at(j) = j /\ j \in 1..Len(l)
      BY <1>2, <1>3, <2>1, <2>3
    <3>2. Nth(l, j) = l[j] /\ l[j] \in Node /\ mem.next[l[j]] = Nth(l, j + 1)
      BY <3>1 DEF Nth, Leads
    <3>3. key[l[j]] # k
      BY <1>1, <2>3, <3>1 DEF FirstAt
    <3>4. link[l[j]] = Nth(l, j + 1)
      BY <3>2, <3>3
    <3> HIDE DEF link
    <3> QED
      BY <2>2, <3>1, <3>2, <3>4, NoNode DEF On
  <2>4. CASE ~ (j < i)
    <3>1. at(j + 1) = i /\ at(j) = i
      BY <1>3, <2>1, <2>4
    <3>2. CASE i <= Len(l)
      <4>1. i \in 1..Len(l) /\ key[l[i]] = k /\ l[i] \in Node
        BY <1>1, <1>2, <1>3, <3>2 DEF FirstAt
      <4>2. Nth(l, i) = l[i] /\ link[l[i]] = l[i]
        BY <4>1 DEF Nth
      <4> HIDE DEF link
      <4> QED
        BY <2>2, <3>1, <4>1, <4>2, NoNode DEF On
    <3>3. CASE ~ (i <= Len(l))
      <4>1. Nth(l, i) = INVALID
        BY <1>2, <1>3, <3>3 DEF Nth
      <4> HIDE DEF link
      <4> QED
        BY <2>2, <3>1, <4>1, NoNode DEF On
    <3> QED
      BY <3>2, <3>3
  <2> QED
    BY <2>3, <2>4
<1>7. v[NodeTotal] = Nth(l, i)
  <2>1. at(NodeTotal + 1) = i /\ NodeTotal \in 0..NodeTotal
    BY <1>2, <1>3
  <2> QED
    BY <2>1
<1> HIDE DEF v, first
<1>8. Met(first, link, v)
  BY <1>4, <1>5, <1>6 DEF Met
<1>9. Along(first, link)[NodeTotal] = v[NodeTotal]
  <2>1. NodeTotal \in 0..NodeTotal
    BY <1>2
  <2> QED
    BY <1>8, <2>1, AlongIs
<1>10. NodeOf(mem, k) = Nth(l, i)
  BY <1>7, <1>9 DEF NodeOf, first
<1>11. CASE i <= Len(l)
  <2>1. i \in 1..Len(l)
    BY <1>2, <1>3, <1>11
  <2> QED
    BY <1>1, <1>10, <1>11, <2>1, HavingFirst DEF Nth
<1>12. CASE ~ (i <= Len(l))
  <2>1. i \notin 1..Len(l)
    BY <1>2, <1>3, <1>12
  <2> QED
    BY <1>1, <1>10, <1>12, <2>1, HavingFirst DEF Nth
<1> QED
  BY <1>11, <1>12

-----------------------------------------------------------------------------
(* Buckets. *)

\* Every key has a bucket.
LEMMA BucketOf == \A k \in Key : GetBucketId(k) \in Bucket
BY SizeAssumption, KeyAssumption DEF GetBucketId, Bucket

\* A linked node is in the bucket of its key and in no other.
LEMMA InBucket ==
  ASSUME NEW mem, mem.key \in [Node -> Key], NEW L \in [Bucket -> Seq(Node)], Buckets(mem, L),
         NEW n \in Linked(L)
  PROVE  /\ n \in Node /\ GetBucketId(mem.key[n]) \in Bucket /\ n \in Range(ListOf(mem, L, n))
         /\ \E i \in 1..Len(ListOf(mem, L, n)) : ListOf(mem, L, n)[i] = n
         /\ \A b \in Bucket : n \in Range(L[b]) => b = GetBucketId(mem.key[n])
<1>1. PICK b \in Bucket : n \in Range(L[b])
  BY DEF Linked
<1>2. \A c \in Bucket : n \in Range(L[c]) => c = GetBucketId(mem.key[n])
  BY DEF Buckets
<1>3. n \in Node
  BY DEF Linked
<1>4. L[b] = ListOf(mem, L, n) /\ b = GetBucketId(mem.key[n]) /\ L[b] \in Seq(Node)
  BY <1>1, <1>2 DEF ListOf
<1>5. \E i \in 1..Len(L[b]) : L[b][i] = n
  BY <1>1, <1>4, Somewhere
<1> QED
  BY <1>1, <1>2, <1>3, <1>4, <1>5

\* The nodes of a bucket are linked.
LEMMA OfBucket ==
  ASSUME NEW L \in [Bucket -> Seq(Node)], NEW b \in Bucket
  PROVE  /\ L[b] \in Seq(Node) /\ Len(L[b]) \in Nat
         /\ \A i \in 1..Len(L[b]) : L[b][i] \in Node /\ L[b][i] \in Linked(L) /\ L[b][i] \in Range(L[b])
         /\ Range(L[b]) \subseteq Linked(L)
         /\ L[b] = <<>> <=> Len(L[b]) = 0
BY Somewhere DEF Linked

\* What is done to the lists of the buckets.
PushedTo(L, b, n, M) ==
  M \in [Bucket -> Seq(Node)] /\ M[b] = <<n>> \o L[b] /\ \A c \in Bucket : c # b => M[c] = L[c]
CutFrom(L, b, i, M) ==
  M \in [Bucket -> Seq(Node)] /\ M[b] = RemoveAt(L[b], i) /\ \A c \in Bucket : c # b => M[c] = L[c]

\* A node put before the list of a bucket is linked, and no other.
LEMMA LinkedMore ==
  ASSUME NEW L \in [Bucket -> Seq(Node)], NEW b \in Bucket, NEW n \in Node
  PROVE  LET M == [L EXCEPT ![b] = <<n>> \o @]
         IN /\ M \in [Bucket -> Seq(Node)] /\ M[b] = <<n>> \o L[b]
            /\ \A c \in Bucket : c # b => M[c] = L[c]
            /\ Linked(M) = Linked(L) \cup {n}
<1> DEFINE s == <<n>> \o L[b]
           M == [L EXCEPT ![b] = s]
<1>1. L[b] \in Seq(Node)
  OBVIOUS
<1>2. s \in Seq(Node) /\ Range(s) = Range(L[b]) \cup {n}
  BY <1>1, Pushed
<1> HIDE DEF s
<1>3. M \in [Bucket -> Seq(Node)] /\ M[b] = s /\ \A c \in Bucket : c # b => M[c] = L[c]
  BY <1>2
<1> HIDE DEF M
<1>4. Linked(M) = Linked(L) \cup {n}
  <2>1. ASSUME NEW x \in Linked(M) PROVE x \in Linked(L) \cup {n}
    BY <1>2, <1>3, <2>1 DEF Linked
  <2>2. ASSUME NEW x \in Linked(L) PROVE x \in Linked(M)
    <3>1. PICK c \in Bucket : x \in Range(L[c]) /\ x \in Node
      BY <2>2 DEF Linked
    <3>2. x \in Range(M[c])
      BY <1>2, <1>3, <3>1
    <3> QED
      BY <3>1, <3>2 DEF Linked
  <2>3. n \in Linked(M)
    BY <1>2, <1>3 DEF Linked
  <2> QED
    BY <2>1, <2>2, <2>3
<1> QED
  BY <1>3, <1>4 DEF M, s

\* A node taken out of the list of a bucket is linked no more, and no other.
LEMMA LinkedLess ==
  ASSUME NEW mem, mem.key \in [Node -> Key], NEW L \in [Bucket -> Seq(Node)], Buckets(mem, L),
         NEW b \in Bucket, Distinct(L[b]), NEW i \in 1..Len(L[b])
  PROVE  \E M : CutFrom(L, b, i, M) /\ Linked(M) = Linked(L) \ {L[b][i]}
<1> DEFINE s == RemoveAt(L[b], i)
           M == [L EXCEPT ![b] = s]
           n == L[b][i]
<1>1. L[b] \in Seq(Node) /\ n \in Node /\ n \in Range(L[b])
  BY Somewhere
<1>2. s \in Seq(Node) /\ Range(s) = Range(L[b]) \ {n}
  BY <1>1, Cut
<1>5. \A c \in Bucket : n \in Range(L[c]) => c = b
  BY <1>1 DEF Buckets
<1> HIDE DEF s, n
<1>3. M \in [Bucket -> Seq(Node)] /\ M[b] = s /\ \A c \in Bucket : c # b => M[c] = L[c]
  BY <1>2
<1> HIDE DEF M
<1>4. Linked(M) = Linked(L) \ {n}
  <2>1. ASSUME NEW x \in Linked(M) PROVE x \in Linked(L) \ {n}
    BY <1>2, <1>3, <1>5, <2>1 DEF Linked
  <2>2. ASSUME NEW x \in Linked(L), x # n PROVE x \in Linked(M)
    <3>1. PICK c \in Bucket : x \in Range(L[c]) /\ x \in Node
      BY <2>2 DEF Linked
    <3>2. x \in Range(M[c])
      BY <1>2, <1>3, <2>2, <3>1
    <3> QED
      BY <3>1, <3>2 DEF Linked
  <2> QED
    BY <2>1, <2>2
<1>6. CutFrom(L, b, i, M)
  BY <1>3 DEF CutFrom, s
<1> QED
  BY <1>4, <1>6 DEF n

-----------------------------------------------------------------------------
(* Counting. *)

\* A node more, or less, counts by one.
LEMMA NodeSetCounted ==
  ASSUME NEW S \in SUBSET Node, NEW n \in Node
  PROVE  /\ IsFiniteSet(S) /\ Cardinality(S) \in Nat
         /\ Cardinality(S \cup {n}) = IF n \in S THEN Cardinality(S) ELSE Cardinality(S) + 1
         /\ Cardinality(S \ {n}) = IF n \in S THEN Cardinality(S) - 1 ELSE Cardinality(S)
<1>1. IsFiniteSet(S)
  BY NodesCounted, FS_Subset
<1> QED
  BY <1>1, FS_AddElement, FS_RemoveElement, FS_CardinalityType

\* A bucket more, or less, counts by one.
LEMMA BucketSetCounted ==
  ASSUME NEW S \in SUBSET Bucket, NEW b \in Bucket
  PROVE  /\ IsFiniteSet(S) /\ Cardinality(S) \in Nat
         /\ Cardinality(S \cup {b}) = IF b \in S THEN Cardinality(S) ELSE Cardinality(S) + 1
         /\ Cardinality(S \ {b}) = IF b \in S THEN Cardinality(S) - 1 ELSE Cardinality(S)
<1>0. BucketSize \in Nat
  BY SizeAssumption
<1>1. IsFiniteSet(Bucket)
  BY <1>0, NumbersCounted DEF Bucket
<1>2. IsFiniteSet(S)
  BY <1>1, FS_Subset
<1> QED
  BY <1>2, FS_AddElement, FS_RemoveElement, FS_CardinalityType

\* The chunks of a node are as many as its length.
LEMMA ChunksOfNode ==
  ASSUME NEW n, NEW k \in Nat
  PROVE  IsFiniteSet({n} \X (1..k)) /\ Cardinality({n} \X (1..k)) = k
<1>1. IsFiniteSet({n}) /\ Cardinality({n}) = 1
  BY FS_Singleton
<1>2. IsFiniteSet(1..k) /\ Cardinality(1..k) = k
  BY NumbersCounted
<1>3. IsFiniteSet({n} \X (1..k)) /\ Cardinality({n} \X (1..k)) = Cardinality({n}) * Cardinality(1..k)
  BY <1>1, <1>2, FS_Product
<1> QED
  BY <1>1, <1>2, <1>3

\* Some nodes have finitely many chunks.
LEMMA ChunksFinite ==
  ASSUME NEW f \in [Node -> Nat], NEW S \in SUBSET Node
  PROVE  IsFiniteSet(UNION {{x} \X (1..f[x]) : x \in S})
<1> DEFINE P == {{x} \X (1..f[x]) : x \in S}
<1>1. IsFiniteSet(S)
  BY NodesCounted, FS_Subset
<1>2. IsFiniteSet(P)
  <2> DEFINE h == [x \in S |-> {x} \X (1..f[x])]
  <2>1. h \in Surjection(S, P)
    BY DEF Surjection
  <2> HIDE DEF h, P
  <2> QED
    BY <1>1, <2>1, FS_Surjection
<1>3. ASSUME NEW T \in P PROVE IsFiniteSet(T)
  <2>1. PICK x \in S : T = {x} \X (1..f[x])
    OBVIOUS
  <2>2. f[x] \in Nat
    OBVIOUS
  <2> HIDE DEF P
  <2> QED
    BY <2>1, <2>2, ChunksOfNode
<1> HIDE DEF P
<1>4. IsFiniteSet(UNION P)
  BY <1>2, <1>3, FS_UNION
<1> QED
  BY <1>4 DEF P

\* The chunks of all nodes after those of one were changed.
LEMMA ChunksChanged ==
  ASSUME NEW f \in [Node -> Nat], NEW g \in [Node -> Nat], NEW n \in Node,
         \A x \in Node : x # n => g[x] = f[x]
  PROVE  Cardinality(Chunks(f)) \in Nat /\ Cardinality(Chunks(g)) = (Cardinality(Chunks(f)) - f[n]) + g[n]
<1> DEFINE R(h) == UNION {{x} \X (1..h[x]) : x \in Node \ {n}}
           O(h) == {n} \X (1..h[n])
<1>1. ASSUME NEW h \in [Node -> Nat]
      PROVE  /\ Cardinality(Chunks(h)) = Cardinality(R(h)) + h[n]
             /\ Cardinality(R(h)) \in Nat /\ h[n] \in Nat
  <2>1. IsFiniteSet(R(h))
    BY ChunksFinite
  <2>2. h[n] \in Nat
    OBVIOUS
  <2>3. IsFiniteSet(O(h)) /\ Cardinality(O(h)) = h[n]
    BY <2>2, ChunksOfNode
  <2>4. Chunks(h) = R(h) \cup O(h)
    BY DEF Chunks
  <2>5. R(h) \cap O(h) = {}
    OBVIOUS
  <2> HIDE DEF R, O
  <2>6. Cardinality(R(h) \cup O(h)) = Cardinality(R(h)) + Cardinality(O(h)) - Cardinality({})
    BY <2>1, <2>3, <2>5, FS_Union
  <2>7. Cardinality({}) = 0 /\ Cardinality(R(h)) \in Nat
    BY <2>1, FS_EmptySet, FS_CardinalityType
  <2> QED
    BY <2>2, <2>3, <2>4, <2>6, <2>7
<1>2. R(f) = R(g)
  OBVIOUS
<1> HIDE DEF R
<1> QED
  BY <1>1, <1>2

\* A node without chunks does not count.
LEMMA ChunksOf ==
  ASSUME NEW f \in [Node -> Nat], NEW S \in SUBSET Node, \A n \in Node \ S : f[n] = 0
  PROVE  UNION {{n} \X (1..f[n]) : n \in S} = Chunks(f)
<1> DEFINE U == UNION {{n} \X (1..f[n]) : n \in S}
<1>1. U \subseteq Chunks(f)
  BY DEF Chunks
<1>2. ASSUME NEW c \in Chunks(f) PROVE c \in U
  <2>1. PICK n \in Node : c \in {n} \X (1..f[n])
    BY DEF Chunks
  <2>2. c[2] \in 1..f[n]
    BY <2>1
  <2>3. f[n] # 0
    <3> SUFFICES ASSUME f[n] = 0 PROVE FALSE
      OBVIOUS
    <3>1. 1..0 = {}
      OBVIOUS
    <3> QED
      BY <2>2, <3>1
  <2>4. n \in S
    BY <2>3
  <2> QED
    BY <2>1, <2>4
<1> QED
  BY <1>1, <1>2

-----------------------------------------------------------------------------
(* The stacks. *)

KeyNodes(mem, L, k) == Having(L[GetBucketId(k)], mem.key, k)
Repr(mem, L) == [k \in Key |-> Values(mem, KeyNodes(mem, L, k))]
ValueOf(mem, n) == <<mem.len[n], mem.data[n]>>

Typed(mem, L) ==
  /\ mem.key \in [Node -> Key] /\ mem.len \in [Node -> Nat] /\ mem.data \in [Node -> Datum]
  /\ L \in [Bucket -> Seq(Node)]

\* The values of a list of nodes, one for each.
LEMMA ValuesAre ==
  ASSUME NEW mem, NEW L, Typed(mem, L), NEW h \in Seq(Node)
  PROVE  /\ Values(mem, h) \in Seq(Nat \X Datum) /\ Len(Values(mem, h)) = Len(h)
         /\ \A i \in 1..Len(h) : Values(mem, h)[i] = ValueOf(mem, h[i])
         /\ Values(mem, h) = [i \in 1..Len(h) |-> ValueOf(mem, h[i])]
<1>1. Len(h) \in Nat /\ DOMAIN h = 1..Len(h) /\ \A i \in 1..Len(h) : h[i] \in Node
  BY LenProperties
<1>2. Values(mem, h) = [i \in 1..Len(h) |-> ValueOf(mem, h[i])]
  BY <1>1 DEF Values, ValueOf
<1>3. \A i \in 1..Len(h) : ValueOf(mem, h[i]) \in Nat \X Datum
  BY <1>1 DEF ValueOf, Typed
<1> HIDE DEF Values
<1>4. Values(mem, h) \in Seq(Nat \X Datum) /\ Len(Values(mem, h)) = Len(h)
  BY <1>1, <1>2, <1>3
<1> QED
  BY <1>2, <1>4

\* The nodes under a key are those of its bucket that have it.
LEMMA KeyNodesAre ==
  ASSUME NEW mem, NEW L, Typed(mem, L), NEW k \in Key
  PROVE  /\ GetBucketId(k) \in Bucket /\ L[GetBucketId(k)] \in Seq(Node)
         /\ KeyNodes(mem, L, k) \in Seq(Node)
         /\ \A n \in Range(KeyNodes(mem, L, k)) : mem.key[n] = k /\ n \in Range(L[GetBucketId(k)]) /\ n \in Linked(L)
         /\ \A n \in Range(L[GetBucketId(k)]) : mem.key[n] = k => n \in Range(KeyNodes(mem, L, k))
<1>1. GetBucketId(k) \in Bucket /\ L[GetBucketId(k)] \in Seq(Node)
  BY BucketOf DEF Typed
<1>2. /\ KeyNodes(mem, L, k) \in Seq(Node)
      /\ Range(KeyNodes(mem, L, k)) = Under(Range(L[GetBucketId(k)]), mem.key, k)
  BY <1>1, HavingSteps, HavingRange DEF KeyNodes
<1>3. \A n \in Range(L[GetBucketId(k)]) : n \in Linked(L)
  BY <1>1, Somewhere DEF Linked
<1> HIDE DEF KeyNodes
<1> QED
  BY <1>1, <1>2, <1>3 DEF Under

\* Nothing changes for the stacks while the linked nodes keep keys and values.
LEMMA ReprSame ==
  ASSUME NEW mem, NEW mm, NEW L, Typed(mem, L), Typed(mm, L),
         \A n \in Linked(L) : mm.key[n] = mem.key[n] /\ mm.len[n] = mem.len[n] /\ mm.data[n] = mem.data[n]
  PROVE  Repr(mm, L) = Repr(mem, L)
<1> SUFFICES ASSUME NEW k \in Key
             PROVE  Values(mm, KeyNodes(mm, L, k)) = Values(mem, KeyNodes(mem, L, k))
  BY DEF Repr
<1>1. GetBucketId(k) \in Bucket /\ L[GetBucketId(k)] \in Seq(Node)
  BY KeyNodesAre
<1>2. \A n \in Range(L[GetBucketId(k)]) : mm.key[n] = mem.key[n]
  BY <1>1, Somewhere DEF Linked
<1>3. KeyNodes(mm, L, k) = KeyNodes(mem, L, k)
  BY <1>1, <1>2, HavingSame DEF KeyNodes
<1> DEFINE h == KeyNodes(mem, L, k)
<1>4. h \in Seq(Node) /\ \A n \in Range(h) : n \in Linked(L)
  BY KeyNodesAre
<1> HIDE DEF h
<1>5. \A i \in 1..Len(h) : h[i] \in Linked(L)
  BY <1>4, Somewhere
<1>6. \A i \in 1..Len(h) : ValueOf(mm, h[i]) = ValueOf(mem, h[i])
  BY <1>5 DEF ValueOf
<1>7. /\ Values(mem, h) = [i \in 1..Len(h) |-> ValueOf(mem, h[i])]
      /\ Values(mm, h) = [i \in 1..Len(h) |-> ValueOf(mm, h[i])]
  BY <1>4, ValuesAre
<1>8. Values(mm, h) = Values(mem, h)
  BY <1>6, <1>7
<1> QED
  BY <1>3, <1>8 DEF h

\* What is done to the stacks.
PushOn(st, k, v) == [st EXCEPT ![k] = <<v>> \o @]
ChangeAt(st, k, j, v) == [st EXCEPT ![k][j] = v]
DropAt(st, k, j) == [st EXCEPT ![k] = RemoveAt(@, j)]

\* A node put first in its bucket has its value pushed.
LEMMA ReprPush ==
  ASSUME NEW mem, NEW mm, NEW L, Typed(mem, L), NEW n \in Node, NEW M, PushedTo(L, GetBucketId(mem.key[n]), n, M),
         mm.key = mem.key, mm.len = mem.len, mm.data = mem.data
  PROVE  Repr(mm, M) = PushOn(Repr(mem, L), mem.key[n], ValueOf(mem, n))
<1> DEFINE b == GetBucketId(mem.key[n])
           e == [Repr(mem, L) EXCEPT ![mem.key[n]] = <<ValueOf(mem, n)>> \o @]
<1>1. mem.key[n] \in Key /\ b \in Bucket /\ L[b] \in Seq(Node) /\ ValueOf(mem, n) \in Nat \X Datum
  BY BucketOf DEF Typed, ValueOf
<1>2. M \in [Bucket -> Seq(Node)] /\ M[b] = <<n>> \o L[b] /\ \A c \in Bucket : c # b => M[c] = L[c]
  BY DEF PushedTo
<1>0. Typed(mm, M) /\ Typed(mm, L)
  BY <1>2 DEF Typed
<1>3. ASSUME NEW k \in Key
      PROVE  Values(mm, KeyNodes(mm, M, k)) =
               IF k = mem.key[n] THEN <<ValueOf(mem, n)>> \o Values(mem, KeyNodes(mem, L, k))
               ELSE Values(mem, KeyNodes(mem, L, k))
  <2> DEFINE h == KeyNodes(mem, L, k)
  <2>0. h \in Seq(Node) /\ GetBucketId(k) \in Bucket
    BY KeyNodesAre
  <2>1. KeyNodes(mm, M, k) = IF k = mem.key[n] THEN <<n>> \o h ELSE h
    <3>1. CASE GetBucketId(k) # b
      <4>1. k # mem.key[n] /\ M[GetBucketId(k)] = L[GetBucketId(k)]
        BY <1>2, <2>0, <3>1
      <4> QED
        BY <4>1 DEF KeyNodes
    <3>2. CASE GetBucketId(k) = b
      <4>1. KeyNodes(mm, M, k) = Having(<<n>> \o L[b], mem.key, k) /\ h = Having(L[b], mem.key, k)
        BY <1>2, <3>2 DEF KeyNodes
      <4>2. Having(<<n>> \o L[b], mem.key, k) = Piece(n, mem.key, k) \o Having(L[b], mem.key, k)
        BY <1>1, HavingPushed
      <4>3. KeyNodes(mm, M, k) = Piece(n, mem.key, k) \o h
        BY <4>1, <4>2
      <4> HIDE DEF h
      <4>4. CASE k = mem.key[n]
        BY <4>3, <4>4 DEF Piece
      <4>5. CASE k # mem.key[n]
        <5>1. <<>> \o h = h
          BY <2>0, ConcatEmptySeq
        <5> QED
          BY <4>3, <4>5, <5>1 DEF Piece
      <4> QED
        BY <4>4, <4>5
    <3> QED
      BY <3>1, <3>2
  <2> HIDE DEF h
  <2>2. ASSUME NEW s \in Seq(Node) PROVE Values(mm, s) = Values(mem, s)
    BY DEF Values
  <2>3. Values(mem, <<n>> \o h) = <<ValueOf(mem, n)>> \o Values(mem, h)
    <3> DEFINE s == <<n>> \o h
               v == Values(mem, h)
               x == ValueOf(mem, n)
               r == <<x>> \o v
    <3>1. s \in Seq(Node) /\ Len(s) = Len(h) + 1 /\ s[1] = n /\ \A i \in 1..Len(h) : s[i+1] = h[i]
      BY <2>0, Pushed
    <3>2. v \in Seq(Nat \X Datum) /\ Len(v) = Len(h) /\ \A i \in 1..Len(h) : v[i] = ValueOf(mem, h[i])
      BY <2>0, ValuesAre
    <3>3. /\ Values(mem, s) = [i \in 1..Len(s) |-> ValueOf(mem, s[i])]
          /\ \A i \in 1..Len(s) : Values(mem, s)[i] = ValueOf(mem, s[i])
      BY <3>1, ValuesAre
    <3> HIDE DEF s, v
    <3>4. x \in Nat \X Datum /\ Len(h) \in Nat
      BY <1>1, <2>0, LenProperties
    <3> HIDE DEF x
    <3>5. <<x>> \in Seq(Nat \X Datum) /\ Len(<<x>>) = 1 /\ <<x>>[1] = x
      BY <3>4
    <3>6. /\ r \in Seq(Nat \X Datum) /\ Len(r) = 1 + Len(v)
          /\ \A i \in 1..1+Len(v) : r[i] = IF i <= 1 THEN <<x>>[i] ELSE v[i - 1]
      BY <3>2, <3>5, ConcatProperties
    <3> HIDE DEF r
    <3>7. ASSUME NEW i \in 1..Len(s) PROVE r[i] = ValueOf(mem, s[i])
      <4>1. CASE i = 1
        BY <3>1, <3>2, <3>4, <3>5, <3>6, <4>1 DEF x
      <4>2. CASE i # 1
        <5>1. i - 1 \in 1..Len(h) /\ (i - 1) + 1 = i /\ ~ (i <= 1) /\ i \in 1..1+Len(v)
          BY <3>1, <3>2, <3>4, <4>2
        <5> QED
          BY <3>1, <3>2, <3>6, <5>1
      <4> QED
        BY <4>1, <4>2
    <3>8. Len(r) = Len(s) /\ r = [i \in 1..Len(r) |-> r[i]]
      BY <3>1, <3>2, <3>4, <3>6, LenProperties
    <3>9. Values(mem, s) = r
      BY <3>3, <3>7, <3>8
    <3> QED
      BY <3>9 DEF s, r, v, x
  <2>4. <<n>> \o h \in Seq(Node)
    BY <2>0, Pushed
  <2> QED
    BY <2>0, <2>1, <2>2, <2>3, <2>4 DEF h
<1>4. Repr(mm, M) = [k \in Key |-> Values(mm, KeyNodes(mm, M, k))]
  BY DEF Repr
<1>5. e = [k \in Key |-> IF k = mem.key[n] THEN <<ValueOf(mem, n)>> \o Values(mem, KeyNodes(mem, L, k))
                         ELSE Values(mem, KeyNodes(mem, L, k))]
  BY <1>1 DEF Repr
<1> HIDE DEF e
<1>6. Repr(mm, M) = e
  BY <1>3, <1>4, <1>5
<1> QED
  BY <1>6 DEF e, PushOn

\* A node taken out of its bucket has its value removed.
LEMMA ReprCut ==
  ASSUME NEW mem, NEW mm, NEW L, Typed(mem, L), NEW b \in Bucket, NEW i \in 1..Len(L[b]),
         GetBucketId(mem.key[L[b][i]]) = b, NEW M, CutFrom(L, b, i, M),
         mm.key = mem.key, mm.len = mem.len, mm.data = mem.data
  PROVE  \E j \in 1..Len(KeyNodes(mem, L, mem.key[L[b][i]])) :
           /\ KeyNodes(mem, L, mem.key[L[b][i]])[j] = L[b][i]
           /\ Repr(mm, M) = DropAt(Repr(mem, L), mem.key[L[b][i]], j)
<1> DEFINE n == L[b][i]
           kn == mem.key[n]
<1>1. L[b] \in Seq(Node) /\ n \in Node /\ kn \in Key
  BY DEF Typed
<1>3. M \in [Bucket -> Seq(Node)] /\ M[b] = RemoveAt(L[b], i) /\ \A c \in Bucket : c # b => M[c] = L[c]
  BY DEF CutFrom
<1>4. GetBucketId(kn) = b
  OBVIOUS
<1>5. n = L[b][i] /\ kn = mem.key[n]
  OBVIOUS
<1> HIDE DEF n, kn
<1>6. KeyNodes(mem, L, kn) = Having(L[b], mem.key, kn) /\ KeyNodes(mm, M, kn) = Having(RemoveAt(L[b], i), mem.key, kn)
  BY <1>3, <1>4 DEF KeyNodes
<1>7. PICK j \in 1..Len(KeyNodes(mem, L, kn)) :
        KeyNodes(mem, L, kn)[j] = n /\ KeyNodes(mm, M, kn) = RemoveAt(KeyNodes(mem, L, kn), j)
  BY <1>1, <1>5, <1>6, HavingCut
<1>8. ASSUME NEW k \in Key, k # kn PROVE KeyNodes(mm, M, k) = KeyNodes(mem, L, k)
  <2>1. CASE GetBucketId(k) # b
    BY <1>3, <1>8, <2>1, BucketOf DEF KeyNodes
  <2>2. CASE GetBucketId(k) = b
    <3>1. Having(RemoveAt(L[b], i), mem.key, k) = Having(L[b], mem.key, k)
      BY <1>1, <1>5, <1>8, HavingCut
    <3> QED
      BY <1>3, <2>2, <3>1 DEF KeyNodes
  <2> QED
    BY <2>1, <2>2
<1>9. \A s : Values(mm, s) = Values(mem, s)
  BY DEF Values
<1> DEFINE h == KeyNodes(mem, L, kn)
           v == Values(mem, h)
<1>10. h \in Seq(Node)
  BY <1>1, KeyNodesAre
<1>11. Values(mem, RemoveAt(h, j)) = RemoveAt(v, j)
  <2>1. v \in Seq(Nat \X Datum) /\ Len(v) = Len(h) /\ \A x \in 1..Len(h) : v[x] = ValueOf(mem, h[x])
    BY <1>10, ValuesAre
  <2>2. j \in 1..Len(h) /\ Len(h) \in Nat
    BY <1>10, LenProperties
  <2> HIDE DEF h, v
  <2> DEFINE r == RemoveAt(h, j)
             u == RemoveAt(v, j)
  <2>3. /\ r \in Seq(Node) /\ Len(r) = Len(h) - 1
        /\ \A x \in 1..Len(h)-1 : r[x] = IF x < j THEN h[x] ELSE h[x + 1]
    BY <1>10, <2>2, CutOut
  <2>4. j \in 1..Len(v)
    BY <2>1, <2>2
  <2>5. /\ u \in Seq(Nat \X Datum) /\ Len(u) = Len(h) - 1
        /\ \A x \in 1..Len(h)-1 : u[x] = IF x < j THEN v[x] ELSE v[x + 1]
    BY <2>1, <2>4, CutOut
  <2>6. Values(mem, r) = [x \in 1..Len(r) |-> ValueOf(mem, r[x])]
    BY <2>3, ValuesAre
  <2> HIDE DEF r, u
  <2>7. ASSUME NEW x \in 1..Len(r) PROVE u[x] = ValueOf(mem, r[x])
    <3>1. x \in 1..Len(h)-1 /\ x \in 1..Len(h) /\ x + 1 \in 1..Len(h)
      BY <2>2, <2>3
    <3>2. CASE x < j
      BY <2>1, <2>3, <2>5, <3>1, <3>2
    <3>3. CASE ~ (x < j)
      BY <2>1, <2>3, <2>5, <3>1, <3>3
    <3> QED
      BY <3>2, <3>3
  <2>8. u = [x \in 1..Len(u) |-> u[x]]
    BY <2>5, LenProperties
  <2>9. Values(mem, r) = u
    BY <2>3, <2>5, <2>6, <2>7, <2>8
  <2> QED
    BY <2>9 DEF r, u
<1> DEFINE e == [Repr(mem, L) EXCEPT ![kn] = RemoveAt(@, j)]
<1>12. Repr(mm, M) = [k \in Key |-> Values(mem, KeyNodes(mm, M, k))]
  BY <1>9 DEF Repr
<1>13. e = [k \in Key |-> IF k = kn THEN RemoveAt(v, j) ELSE Values(mem, KeyNodes(mem, L, k))]
  BY <1>1 DEF Repr
<1> HIDE DEF e, v
<1>14. \A k \in Key : Values(mem, KeyNodes(mm, M, k)) = IF k = kn THEN RemoveAt(v, j) ELSE Values(mem, KeyNodes(mem, L, k))
  BY <1>7, <1>8, <1>11
<1>15. Repr(mm, M) = e
  BY <1>12, <1>13, <1>14
<1> QED
  BY <1>7, <1>15 DEF e, n, kn, DropAt

\* A linked node's new value is put in the place of its old one.
LEMMA ReprSet ==
  ASSUME NEW mem, NEW mm, NEW L, Typed(mem, L), Typed(mm, L), Buckets(mem, L),
         \A b \in Bucket : Distinct(L[b]), NEW n \in Linked(L),
         mm.key = mem.key,
         \A x \in Node : x # n => mm.len[x] = mem.len[x] /\ mm.data[x] = mem.data[x]
  PROVE  \E j \in 1..Len(KeyNodes(mem, L, mem.key[n])) :
           /\ KeyNodes(mem, L, mem.key[n])[j] = n
           /\ Repr(mm, L) = ChangeAt(Repr(mem, L), mem.key[n], j, ValueOf(mm, n))
<1> DEFINE kn == mem.key[n]
           h == KeyNodes(mem, L, kn)
<1>1. kn \in Key /\ n \in Node /\ GetBucketId(kn) \in Bucket /\ n \in Range(L[GetBucketId(kn)])
  BY InBucket DEF Typed, Linked, ListOf
<1>2. h \in Seq(Node) /\ n \in Range(h)
  BY <1>1, KeyNodesAre
<1>3. Distinct(h)
  BY <1>1, HavingDistinct DEF KeyNodes, Typed
<1>4. \A k \in Key : KeyNodes(mm, L, k) = KeyNodes(mem, L, k)
  BY DEF KeyNodes
<1>0. n \in Node /\ kn \in Key
  BY <1>1
<1>00. \A k \in Key : k # kn => n \notin Range(KeyNodes(mem, L, k))
  BY KeyNodesAre
<1>6. kn = mem.key[n] /\ h = KeyNodes(mem, L, kn)
  OBVIOUS
<1> HIDE DEF h, kn
<1>5. PICK j \in 1..Len(h) : h[j] = n
  BY <1>2, Somewhere
<1>7. ASSUME NEW s \in Seq(Node), n \notin Range(s) PROVE Values(mm, s) = Values(mem, s)
  <2>1. \A i \in 1..Len(s) : s[i] # n /\ s[i] \in Node
    BY <1>7, Somewhere
  <2>2. \A i \in 1..Len(s) : ValueOf(mm, s[i]) = ValueOf(mem, s[i])
    BY <2>1 DEF ValueOf
  <2>3. /\ Values(mem, s) = [i \in 1..Len(s) |-> ValueOf(mem, s[i])]
        /\ Values(mm, s) = [i \in 1..Len(s) |-> ValueOf(mm, s[i])]
    BY ValuesAre
  <2> QED
    BY <2>2, <2>3
<1> DEFINE v == Values(mem, h)
           x == ValueOf(mm, n)
<1>8. Values(mm, h) = [v EXCEPT ![j] = x]
  <2>1. \A i \in 1..Len(h) : h[i] \in Node /\ (h[i] = n => i = j)
    BY <1>2, <1>3, <1>5, Somewhere DEF Distinct
  <2>2. \A i \in 1..Len(h) : ValueOf(mm, h[i]) = IF i = j THEN x ELSE ValueOf(mem, h[i])
    BY <1>5, <2>1 DEF ValueOf
  <2>3. /\ v = [i \in 1..Len(h) |-> ValueOf(mem, h[i])]
        /\ Values(mm, h) = [i \in 1..Len(h) |-> ValueOf(mm, h[i])]
    BY <1>2, ValuesAre
  <2> HIDE DEF v, x
  <2>4. [v EXCEPT ![j] = x] = [i \in 1..Len(h) |-> IF i = j THEN x ELSE ValueOf(mem, h[i])]
    BY <2>3
  <2> QED
    BY <2>2, <2>3, <2>4
<1> DEFINE e == [Repr(mem, L) EXCEPT ![kn][j] = x]
<1>9. e = [k \in Key |-> IF k = kn THEN [v EXCEPT ![j] = x] ELSE Values(mem, KeyNodes(mem, L, k))]
  BY <1>0, <1>6 DEF Repr
<1>10. \A k \in Key : Values(mm, KeyNodes(mm, L, k)) =
                        IF k = kn THEN [v EXCEPT ![j] = x] ELSE Values(mem, KeyNodes(mem, L, k))
  BY <1>00, <1>4, <1>6, <1>7, <1>8, KeyNodesAre
<1> HIDE DEF e, v, x
<1>11. Repr(mm, L) = e
  BY <1>9, <1>10 DEF Repr
<1> QED
  BY <1>5, <1>6, <1>11 DEF e, x, ChangeAt

-----------------------------------------------------------------------------
(* What the shape of the memory tells. *)

\* What the lists represented tell of the fields of the memory.
LEMMA ShapeTells ==
  ASSUME NEW mem, NEW L, NEW F, NEW A, Shape(mem, L, F, A)
  PROVE  /\ mem \in Segment /\ mem.total = NodeTotal /\ Typed(mem, L)
         /\ mem.bucket \in [Bucket -> Handle] /\ mem.free \in Handle
         /\ mem.next \in [Node -> Handle] /\ mem.prev \in [Node -> Handle]
         /\ mem.addNext \in [Node -> Handle] /\ mem.addPrev \in [Node -> Handle]
         /\ F \in Seq(Node) /\ A \in Seq(Node) /\ Distinct(F) /\ Distinct(A)
         /\ \A b \in Bucket : Distinct(L[b]) /\ L[b] \in Seq(Node)
         /\ Range(F) \cap Linked(L) = {} /\ Range(F) \subseteq Node
         /\ Range(A) \subseteq Linked(L) /\ Linked(L) \subseteq Node
         /\ Buckets(mem, L) /\ InAddList(mem, A) /\ Leads(mem.free, mem.next, F)
<1>1. mem \in Segment /\ mem.total = NodeTotal /\ Placed(L, F, A) /\ Buckets(mem, L) /\ InAddList(mem, A)
      /\ Leads(mem.free, mem.next, F)
  BY DEF Shape
<1>2. Typed(mem, L)
  BY <1>1 DEF Typed, Segment, Placed
<1>3. /\ mem.bucket \in [Bucket -> Handle] /\ mem.free \in Handle
      /\ mem.next \in [Node -> Handle] /\ mem.prev \in [Node -> Handle]
      /\ mem.addNext \in [Node -> Handle] /\ mem.addPrev \in [Node -> Handle]
  BY <1>1 DEF Segment
<1>4. Linked(L) \subseteq Node
  BY DEF Linked
<1>5. Range(F) \subseteq Node
  BY <1>1, Somewhere DEF Placed
<1> QED
  BY <1>1, <1>2, <1>3, <1>4, <1>5 DEF Placed

\* The model walks the lists represented, finds the first node under a key, and its stacks
\* are the values on those lists.
LEMMA ListsAre ==
  ASSUME NEW mem, NEW L, NEW F, NEW A, Shape(mem, L, F, A)
  PROVE  /\ \A b \in Bucket : BucketList(mem, b) = L[b]
         /\ FreeList(mem) = F /\ AddList(mem) = A
         /\ \A k \in Key : LET h == KeyNodes(mem, L, k)
                           IN NodeOf(mem, k) = IF h = <<>> THEN INVALID ELSE h[1]
         /\ StacksOf(mem) = Repr(mem, L)
<1>1. \A b \in Bucket : BucketList(mem, b) = L[b]
  BY ShapeTells, WalkIs DEF BucketList, Buckets
<1>2. FreeList(mem) = F
  BY ShapeTells, WalkIs DEF FreeList
<1>3. AddList(mem) = A
  BY ShapeTells, WalkIs DEF AddList, InAddList
<1>4. ASSUME NEW k \in Key
      PROVE  /\ Hits(mem, k) = KeyNodes(mem, L, k)
             /\ NodeOf(mem, k) = IF KeyNodes(mem, L, k) = <<>> THEN INVALID ELSE KeyNodes(mem, L, k)[1]
  <2>1. GetBucketId(k) \in Bucket
    BY BucketOf
  <2>2. Hits(mem, k) = KeyNodes(mem, L, k)
    BY <1>1, <2>1 DEF Hits, KeyNodes
  <2> DEFINE l == L[GetBucketId(k)]
  <2>3. l \in Seq(Node) /\ Distinct(l) /\ Leads(mem.bucket[GetBucketId(k)], mem.next, l)
    BY <2>1, ShapeTells DEF Buckets
  <2> HIDE DEF l
  <2>4. NodeOf(mem, k) = IF Having(l, mem.key, k) = <<>> THEN INVALID ELSE Having(l, mem.key, k)[1]
    BY <2>3, NodeOfIs
  <2> QED
    BY <2>2, <2>4 DEF KeyNodes, l
<1>5. mem \notin {Absent, Zeroed}
  <2>1. mem.total = NodeTotal /\ NodeTotal # 0 /\ NodeTotal # INVALID
    BY ShapeTells, SizeAssumption DEF INVALID
  <2>2. Zeroed.total = 0 /\ Absent.total = INVALID
    BY DEF Zeroed, Absent
  <2> QED
    BY <2>1, <2>2
<1>6. StacksOf(mem) = Repr(mem, L)
  BY <1>4, <1>5 DEF StacksOf, Repr
<1> QED
  BY <1>1, <1>2, <1>3, <1>4, <1>6

\* The shape stays while the links of the nodes and their keys do.
LEMMA ShapeKept ==
  ASSUME NEW mem, NEW mm, NEW L, NEW F, NEW A, NEW B, Shape(mem, L, F, A),
         mm \in Segment, mm.total = mem.total, mm.bucket = mem.bucket, mm.next = mem.next, mm.free = mem.free,
         \A n \in Linked(L) : mm.key[n] = mem.key[n],
         B \in Seq(Node), Distinct(B), Range(B) \subseteq Linked(L), InAddList(mm, B)
  PROVE  Shape(mm, L, F, B)
<1>1. Placed(L, F, B)
  BY DEF Shape, Placed
<1>2. ASSUME NEW b \in Bucket
      PROVE  /\ Leads(mm.bucket[b], mm.next, L[b])
             /\ \A n \in Range(L[b]) : GetBucketId(mm.key[n]) = b
  <2>1. Leads(mem.bucket[b], mem.next, L[b]) /\ \A n \in Range(L[b]) : GetBucketId(mem.key[n]) = b
    BY DEF Shape, Buckets
  <2>2. \A n \in Range(L[b]) : n \in Linked(L)
    BY OfBucket DEF Shape, Placed
  <2> QED
    BY <2>1, <2>2
<1>3. Buckets(mm, L)
  BY <1>2 DEF Buckets
<1>4. mm.total = NodeTotal /\ Leads(mm.free, mm.next, F)
  BY DEF Shape
<1> QED
  BY <1>1, <1>3, <1>4 DEF Shape

-----------------------------------------------------------------------------
(* The list of all. *)

\* delete_from_add_list takes the node out of the list of all, if it is there.
LEMMA AddListOut ==
  ASSUME NEW mem, mem \in Segment, NEW A \in Seq(Node), Distinct(A), InAddList(mem, A), NEW n \in Node
  PROVE  \E B \in Seq(Node) :
           /\ Distinct(B) /\ Range(B) = Range(A) \ {n} /\ InAddList(DeleteFromAddList(mem, n), B)
<1> DEFINE d == DeleteFromAddList(mem, n)
           nx == mem.addNext[n]
           pv == mem.addPrev[n]
<1>1. /\ mem.addNext \in [Node -> Handle] /\ mem.addPrev \in [Node -> Handle]
      /\ mem.addHead \in Handle /\ mem.addTail \in Handle
  BY DEF Segment
<1>2. /\ \A x \in Node : d.addNext[x] = IF x = n THEN INVALID ELSE IF x = pv THEN nx ELSE mem.addNext[x]
      /\ \A x \in Node : d.addPrev[x] = IF x = n THEN INVALID ELSE IF x = nx THEN pv ELSE mem.addPrev[x]
      /\ d.addHead = IF mem.addHead = n THEN nx ELSE mem.addHead
      /\ d.addTail = IF mem.addTail = n THEN pv ELSE mem.addTail
  BY DEF DeleteFromAddList, Segment
<1>3. nx = mem.addNext[n] /\ pv = mem.addPrev[n]
  OBVIOUS
<1> HIDE DEF d, nx, pv
<1>4. /\ Leads(mem.addHead, mem.addNext, A) /\ Backs(mem.addTail, mem.addPrev, A)
      /\ \A x \in Node \ Range(A) : mem.addNext[x] = INVALID /\ mem.addPrev[x] = INVALID
  BY DEF InAddList
<1>5. /\ Len(A) \in Nat /\ \A i \in 1..Len(A) : A[i] \in Node /\ A[i] \in Range(A)
      /\ A = <<>> <=> Len(A) = 0
  BY Somewhere
<1>6. CASE n \notin Range(A)
  <2>1. nx = INVALID /\ pv = INVALID
    BY <1>3, <1>4, <1>6
  <2>2. mem.addHead # n /\ mem.addTail # n
    <3>1. mem.addHead = Nth(A, 1) /\ mem.addTail = Nth(A, Len(A))
      BY <1>4 DEF Leads, Backs
    <3>2. Nth(A, 1) # n /\ Nth(A, Len(A)) # n
      BY <1>5, <1>6, NoNode DEF Nth
    <3> QED
      BY <3>1, <3>2
  <2>3. d.addHead = mem.addHead /\ d.addTail = mem.addTail
    BY <1>2, <2>2
  <2>4. \A x \in Range(A) : x \in Node /\ d.addNext[x] = mem.addNext[x] /\ d.addPrev[x] = mem.addPrev[x]
    BY <1>2, <1>5, <1>6, <2>1, NoNode, Somewhere
  <2>5. Leads(d.addHead, d.addNext, A)
    BY <1>4, <2>3, <2>4, LeadsKept
  <2>6. Backs(d.addTail, d.addPrev, A)
    BY <1>4, <2>3, <2>4, BacksKept
  <2>7. \A x \in Node \ Range(A) : d.addNext[x] = INVALID /\ d.addPrev[x] = INVALID
    BY <1>2, <1>4, <2>1, NoNode
  <2>8. InAddList(d, A)
    BY <2>5, <2>6, <2>7 DEF InAddList
  <2>9. Range(A) = Range(A) \ {n}
    BY <1>6
  <2> QED
    BY <2>8, <2>9 DEF d
<1>7. CASE n \in Range(A)
  <2>1. PICK i \in 1..Len(A) : A[i] = n
    BY <1>7, Somewhere
  <2>0. i \in Int /\ 1 <= i /\ i <= Len(A)
    BY <1>5
  <2>2. nx = Nth(A, i + 1) /\ pv = Nth(A, i - 1)
    BY <1>3, <1>4, <2>1 DEF Leads, Backs
  <2> DEFINE B == RemoveAt(A, i)
  <2>3. B \in Seq(Node) /\ Distinct(B) /\ Range(B) = Range(A) \ {n}
    BY <2>1, Cut
  <2> HIDE DEF B
  <2>4. \A j, k \in 1..Len(A) : A[j] = A[k] => j = k
    BY DEF Distinct
  <2>5. \A j \in 1..Len(A) : (A[j] = n <=> j = i) /\ (A[j] = pv <=> j = i - 1) /\ (A[j] = nx <=> j = i + 1)
    <3> SUFFICES ASSUME NEW j \in 1..Len(A)
                 PROVE (A[j] = n <=> j = i) /\ (A[j] = pv <=> j = i - 1) /\ (A[j] = nx <=> j = i + 1)
      OBVIOUS
    <3>1. A[j] = n <=> j = i
      BY <2>1, <2>4
    <3>2. A[j] = pv <=> j = i - 1
      BY <1>5, <2>2, <2>4, NoNode DEF Nth
    <3>3. A[j] = nx <=> j = i + 1
      BY <1>5, <2>2, <2>4, NoNode DEF Nth
    <3> QED
      BY <3>1, <3>2, <3>3
  <2>6. Leads(d.addHead, d.addNext, B)
    <3>1. Passed(mem.addNext, d.addNext, A, i, -1)
      <4>1. ASSUME i + (-1) \in 1..Len(A) PROVE d.addNext[A[i + (-1)]] = Nth(A, i - (-1))
        <5>1. i + (-1) = i - 1 /\ i - (-1) = i + 1 /\ i - 1 # i
          BY <2>0
        <5>2. i - 1 \in 1..Len(A) /\ A[i-1] \in Node /\ A[i-1] # n /\ A[i-1] = pv
          BY <1>5, <2>5, <4>1, <5>1
        <5>3. d.addNext[A[i-1]] = nx
          BY <1>2, <5>2
        <5> QED
          BY <2>2, <5>1, <5>3
      <4>2. ASSUME NEW j \in 1..Len(A), j # i, j # i + (-1) PROVE d.addNext[A[j]] = mem.addNext[A[j]]
        <5>1. i + (-1) = i - 1
          BY <2>0
        <5>2. A[j] \in Node /\ A[j] # n /\ A[j] # pv
          BY <1>5, <2>5, <4>2, <5>1
        <5> QED
          BY <1>2, <5>2
      <4> QED
        BY <4>1, <4>2 DEF Passed
    <3>2. Leads(IF i = 1 THEN Nth(A, 2) ELSE mem.addHead, d.addNext, B)
      BY <1>4, <3>1, LeadsCut DEF B
    <3>3. d.addHead = IF i = 1 THEN Nth(A, 2) ELSE mem.addHead
      <4>1. mem.addHead = A[1] /\ 1 \in 1..Len(A)
        BY <1>4, <1>5, <2>0 DEF Leads, Nth
      <4>2. mem.addHead = n <=> i = 1
        BY <2>5, <4>1
      <4>3. i = 1 => nx = Nth(A, 2)
        BY <2>2
      <4> QED
        BY <1>2, <4>2, <4>3
    <3> QED
      BY <3>2, <3>3
  <2>7. Backs(d.addTail, d.addPrev, B)
    <3>1. Passed(mem.addPrev, d.addPrev, A, i, 1)
      <4>1. ASSUME i + 1 \in 1..Len(A) PROVE d.addPrev[A[i + 1]] = Nth(A, i - 1)
        <5>1. A[i+1] \in Node /\ A[i+1] # n /\ A[i+1] = nx
          BY <1>5, <2>0, <2>5, <4>1
        <5>2. d.addPrev[A[i+1]] = pv
          BY <1>2, <5>1
        <5> QED
          BY <2>2, <5>2
      <4>2. ASSUME NEW j \in 1..Len(A), j # i, j # i + 1 PROVE d.addPrev[A[j]] = mem.addPrev[A[j]]
        <5>1. A[j] \in Node /\ A[j] # n /\ A[j] # nx
          BY <1>5, <2>5, <4>2
        <5> QED
          BY <1>2, <5>1
      <4> QED
        BY <4>1, <4>2 DEF Passed
    <3>2. Backs(IF i = Len(A) THEN Nth(A, i - 1) ELSE mem.addTail, d.addPrev, B)
      BY <1>4, <3>1, BacksCut DEF B
    <3>3. d.addTail = IF i = Len(A) THEN Nth(A, i - 1) ELSE mem.addTail
      <4>1. mem.addTail = A[Len(A)] /\ Len(A) \in 1..Len(A)
        BY <1>4, <1>5, <2>0 DEF Backs, Nth
      <4>2. mem.addTail = n <=> i = Len(A)
        BY <2>5, <4>1
      <4> QED
        BY <1>2, <2>2, <4>2
    <3> QED
      BY <3>2, <3>3
  <2>8. \A x \in Node \ Range(B) : d.addNext[x] = INVALID /\ d.addPrev[x] = INVALID
    <3> SUFFICES ASSUME NEW x \in Node \ Range(B), x # n PROVE d.addNext[x] = INVALID /\ d.addPrev[x] = INVALID
      BY <1>2
    <3>1. x \in Node \ Range(A)
      BY <2>3
    <3>2. x # pv /\ x # nx
      BY <1>5, <2>2, <3>1, NoNode DEF Nth
    <3> QED
      BY <1>2, <1>4, <3>1, <3>2
  <2>9. InAddList(d, B)
    BY <2>6, <2>7, <2>8 DEF InAddList
  <2> QED
    BY <2>3, <2>9 DEF d
<1> QED
  BY <1>6, <1>7

\* The rest of insert_add_list_head puts it first.
LEMMA AddListIn ==
  ASSUME NEW d, d \in Segment, NEW A \in Seq(Node), Distinct(A), InAddList(d, A), NEW n \in Node \ Range(A),
         NEW e, e.addNext = [d.addNext EXCEPT ![n] = d.addHead],
         e.addPrev = [x \in Node |-> IF x = d.addHead THEN n ELSE d.addPrev[x]],
         e.addHead = n, e.addTail = IF d.addTail = INVALID THEN n ELSE d.addTail
  PROVE  /\ <<n>> \o A \in Seq(Node) /\ Distinct(<<n>> \o A) /\ Range(<<n>> \o A) = Range(A) \cup {n}
         /\ InAddList(e, <<n>> \o A)
<1> DEFINE B == <<n>> \o A
<1>1. B \in Seq(Node) /\ Distinct(B) /\ Range(B) = Range(A) \cup {n}
  BY Pushed
<1>2. /\ d.addNext \in [Node -> Handle] /\ d.addPrev \in [Node -> Handle]
      /\ d.addHead \in Handle /\ d.addTail \in Handle
  BY DEF Segment
<1>3. /\ Leads(d.addHead, d.addNext, A) /\ Backs(d.addTail, d.addPrev, A)
      /\ \A x \in Node \ Range(A) : d.addNext[x] = INVALID /\ d.addPrev[x] = INVALID
  BY DEF InAddList
<1>4. /\ Len(A) \in Nat /\ \A i \in 1..Len(A) : A[i] \in Node /\ A[i] \in Range(A)
      /\ A = <<>> <=> Len(A) = 0
  BY Somewhere
<1>5. \A x \in Range(A) : x \in Node /\ x # n
  BY Somewhere
<1>6. d.addHead = Nth(A, 1) /\ d.addTail = Nth(A, Len(A))
  BY <1>3 DEF Leads, Backs
<1>7. d.addHead # n
  BY <1>4, <1>6, NoNode DEF Nth
<1>8. Leads(n, e.addNext, B)
  <2>1. e.addNext[n] = d.addHead /\ \A x \in Range(A) : e.addNext[x] = d.addNext[x]
    BY <1>2, <1>5
  <2> DEFINE link == d.addNext
             link2 == e.addNext
             first == d.addHead
  <2>2. /\ link2[n] = first /\ \A x \in Range(A) : link2[x] = link[x]
        /\ Leads(first, link, A)
    BY <1>3, <2>1
  <2> HIDE DEF link, link2, first
  <2>3. Leads(n, link2, <<n>> \o A)
    BY <2>2, LeadsPushed
  <2> QED
    BY <2>3 DEF link2
<1>9. Backs(e.addTail, e.addPrev, B)
  <2>1. e.addPrev[n] = INVALID
    BY <1>3, <1>7
  <2>2. ASSUME NEW j \in 1..Len(A) PROVE e.addPrev[A[j]] = IF j = 1 THEN n ELSE d.addPrev[A[j]]
    <3>1. A[j] \in Node /\ 1 \in 1..Len(A)
      BY <1>4
    <3>2. d.addHead = A[1]
      BY <1>6, <3>1 DEF Nth
    <3>3. A[j] = d.addHead <=> j = 1
      BY <3>1, <3>2 DEF Distinct
    <3> QED
      BY <3>1, <3>3
  <2>3. e.addTail = IF A = <<>> THEN n ELSE d.addTail
    <3>1. d.addTail = INVALID <=> A = <<>>
      BY <1>4, <1>6, NoNode DEF Nth
    <3> QED
      BY <3>1
  <2> QED
    BY <1>3, <2>1, <2>2, <2>3, BacksPushed
<1>10. \A x \in Node \ Range(B) : e.addNext[x] = INVALID /\ e.addPrev[x] = INVALID
  <2> SUFFICES ASSUME NEW x \in Node \ Range(B) PROVE e.addNext[x] = INVALID /\ e.addPrev[x] = INVALID
    OBVIOUS
  <2>1. x \in Node \ Range(A) /\ x # n
    BY <1>1
  <2>2. x # d.addHead
    BY <1>4, <1>6, <2>1, NoNode DEF Nth
  <2> QED
    BY <1>2, <1>3, <2>1, <2>2
<1> HIDE DEF B
<1>11. InAddList(e, B)
  BY <1>8, <1>9, <1>10 DEF InAddList
<1> QED
  BY <1>1, <1>11 DEF B

-----------------------------------------------------------------------------
(* Who comes before whom. *)

\* A node need not know who comes before it.
LEMMA KnowsLess ==
  ASSUME NEW s \in Seq(Node), NEW prev, NEW x, Knows(prev, s, INVALID)
  PROVE  Knows(prev, s, x)
BY Somewhere, NoNode DEF Knows

\* Nodes that know who comes before them still do when their links stay.
LEMMA KnowsKept ==
  ASSUME NEW s \in Seq(Node), NEW prev, NEW prev2, NEW x, Knows(prev, s, x),
         \A y \in Range(s) : y # x => prev2[y] = prev[y]
  PROVE  Knows(prev2, s, x)
BY Somewhere DEF Knows

\* The one node that did not know who comes before it is told.
LEMMA KnowsAgain ==
  ASSUME NEW s \in Seq(Node), Distinct(s), NEW prev, NEW prev2, NEW x, Knows(prev, s, x),
         \A y \in Range(s) : y # x => prev2[y] = prev[y],
         NEW i \in Int, x = Nth(s, i), x = INVALID \/ prev2[x] = Nth(s, i - 1)
  PROVE  Knows(prev2, s, INVALID)
<1>1. Len(s) \in Nat /\ \A j \in 1..Len(s) : s[j] \in Node /\ s[j] \in Range(s)
  BY Somewhere
<1>2. ASSUME NEW j \in 1..Len(s), s[j] # x PROVE prev2[s[j]] = Nth(s, j - 1)
  BY <1>1, <1>2 DEF Knows
<1>3. ASSUME NEW j \in 1..Len(s), s[j] = x PROVE prev2[s[j]] = Nth(s, j - 1)
  <2>1. x \in Node /\ x # INVALID
    BY <1>1, <1>3, NoNode
  <2>2. i \in 1..Len(s) /\ s[i] = x
    BY <2>1 DEF Nth
  <2>3. i = j
    BY <1>3, <2>2 DEF Distinct
  <2> QED
    BY <1>3, <2>1, <2>3
<1> QED
  BY <1>2, <1>3 DEF Knows

\* A node is put in front of a list whose first node does not know it yet.
LEMMA KnowsPushed ==
  ASSUME NEW s \in Seq(Node), NEW n \in Node, NEW prev, NEW prev2, Knows(prev, s, INVALID),
         prev2[n] = INVALID, \A x \in Range(s) : prev2[x] = prev[x]
  PROVE  Knows(prev2, <<n>> \o s, Nth(s, 1))
<1> DEFINE t == <<n>> \o s
<1>1. Len(t) = Len(s) + 1 /\ t[1] = n /\ \A i \in 1..Len(s) : t[i+1] = s[i]
  BY Pushed
<1> HIDE DEF t
<1>2. Len(s) \in Nat /\ \A i \in 1..Len(s) : s[i] \in Range(s) /\ s[i] # INVALID
  BY Somewhere, NoNode
<1>3. ASSUME NEW i \in 1..Len(t), t[i] # Nth(s, 1) PROVE prev2[t[i]] = Nth(t, i - 1)
  <2>0. i \in Int /\ 1 <= i /\ i <= Len(s) + 1
    BY <1>1, <1>2
  <2>1. CASE i = 1
    <3>1. i - 1 = 0 /\ 0 \notin 1..Len(t)
      BY <2>1, <1>1, <1>2
    <3>2. Nth(t, i - 1) = INVALID
      BY <3>1 DEF Nth
    <3> QED
      BY <1>1, <2>1, <3>2
  <2>2. CASE i > 1
    <3>1. i - 1 \in 1..Len(s) /\ (i - 1) + 1 = i
      BY <2>0, <2>2, <1>2
    <3>2. t[i] = s[i-1]
      BY <1>1, <3>1
    <3>3. i - 1 # 1
      BY <1>3, <3>1, <3>2 DEF Nth
    <3>4. i - 2 \in 1..Len(s) /\ (i - 2) + 1 = i - 1 /\ (i - 1) - 1 = i - 2 /\ i - 1 \in 1..Len(t)
      BY <1>1, <1>2, <2>0, <2>2, <3>3
    <3>5. prev[s[i-1]] = Nth(s, i - 2)
      BY <1>2, <3>1, <3>4 DEF Knows
    <3>6. Nth(s, i - 2) = s[i-2] /\ t[i-1] = s[i-2]
      BY <1>1, <3>4 DEF Nth
    <3>7. Nth(t, i - 1) = t[i-1]
      BY <3>4 DEF Nth
    <3> QED
      BY <1>2, <3>1, <3>2, <3>5, <3>6, <3>7
  <2> QED
    BY <2>0, <2>1, <2>2
<1> QED
  BY <1>3 DEF Knows, t

\* A node is taken out of a list; the one behind it knows that one still.
LEMMA KnowsCut ==
  ASSUME NEW s \in Seq(Node), Distinct(s), NEW i \in 1..Len(s), NEW prev, Knows(prev, s, Nth(s, i + 1))
  PROVE  /\ Knows(prev, RemoveAt(s, i), Nth(s, i + 1))
         /\ Nth(s, i + 1) = Nth(RemoveAt(s, i), i) /\ Nth(s, i - 1) = Nth(RemoveAt(s, i), i - 1)
<1> DEFINE r == RemoveAt(s, i)
<1>1. Len(r) = Len(s) - 1 /\ \A j \in Nat : Nth(r, j) = IF j < i THEN Nth(s, j) ELSE Nth(s, j + 1)
  BY Cut
<1> HIDE DEF r
<1>2. /\ Len(s) \in Nat /\ i \in Int /\ 1 <= i /\ i <= Len(s) /\ i \in Nat /\ i - 1 \in Nat
  BY Somewhere
<1>3. ASSUME NEW j \in 1..Len(r), r[j] # Nth(s, i + 1) PROVE prev[r[j]] = Nth(r, j - 1)
  <2>0. j \in Int /\ 1 <= j /\ j <= Len(s) - 1 /\ j \in Nat /\ j - 1 \in Nat
    BY <1>1, <1>2
  <2>1. Nth(r, j) = r[j]
    BY DEF Nth
  <2>2. CASE j < i
    <3>1. j \in 1..Len(s) /\ j - 1 < i
      BY <1>2, <2>0, <2>2
    <3>2. Nth(r, j) = Nth(s, j) /\ Nth(r, j - 1) = Nth(s, j - 1)
      BY <1>1, <2>0, <2>2, <3>1
    <3>3. Nth(s, j) = s[j]
      BY <3>1 DEF Nth
    <3> QED
      BY <1>3, <2>1, <3>1, <3>2, <3>3 DEF Knows
  <2>3. CASE ~ (j < i)
    <3>1. j + 1 \in 1..Len(s) /\ (j + 1) - 1 = j
      BY <1>2, <2>0
    <3>2. Nth(r, j) = Nth(s, j + 1)
      BY <1>1, <2>0, <2>3
    <3>3. Nth(s, j + 1) = s[j+1]
      BY <3>1 DEF Nth
    <3>4. j # i
      BY <1>3, <2>1, <3>2
    <3>5. ~ (j - 1 < i) /\ (j - 1) + 1 = j
      BY <1>2, <2>0, <2>3, <3>4
    <3>6. Nth(r, j - 1) = Nth(s, j)
      BY <1>1, <2>0, <3>5
    <3>7. prev[s[j+1]] = Nth(s, (j + 1) - 1)
      BY <1>3, <2>1, <3>1, <3>2, <3>3 DEF Knows
    <3> QED
      BY <2>1, <3>1, <3>2, <3>3, <3>6, <3>7
  <2> QED
    BY <2>2, <2>3
<1>4. ~ (i < i) /\ i - 1 < i
  BY <1>2
<1>5. Nth(r, i) = Nth(s, i + 1) /\ Nth(r, i - 1) = Nth(s, i - 1)
  BY <1>1, <1>2, <1>4
<1> QED
  BY <1>3, <1>5 DEF Knows, r
=============================================================================
